---- MODULE Spec2Model ----
(***************************************************************************)
(* Model of the stock-analysis panel (painel5222_v4.5.py and its earlier   *)
(* variants): the ticker normalizer, the per-ticker pipeline, the          *)
(* ThreadPoolExecutor batch run and the aggregation of its results.        *)
(*                                                                         *)
(* Conventions.  A Python str is a sequence of one-character strings.      *)
(* Python None is the value None.  Money is in centavos (1/100 of the      *)
(* currency unit), the target return rate in tenths of a percent (the      *)
(* input 6.0 is 60), the margin of safety in percent.  A date is a day     *)
(* number, days since 1 January 2000.       The inputs are chosen so     *)
(* that every division the code performs on them is exact.                 *)
(***************************************************************************)
EXTENDS Integers, Sequences, FiniteSets, TLC

VARIABLES
    \* --- sanitizar_tickers applied to one raw input -----------------------
    n_pc, n_input, n_output,
    \* --- obter_dados_dpa applied to one dividend history -------------------
    d_pc, d_hist, d_anos, d_now, d_out,
    \* --- one valuation formula applied to one set of arguments ------------
    c_pc, c_fn, c_args, c_out,
    \* --- the st.cache_data cache of the fetch functions ---------------------
    k_relogio,             \* the cache's timer, in seconds
    k_ticks,               \* number of times the timer has advanced
    k_mundo,               \* version of the data the provider holds
    k_cache,               \* key -> [valor, criada]
    k_last,                \* the last call: <<>> or <<[chave, em, mundo, antes, valor, chamou]>>
    \* --- the "Gerar Relatorio" handler ------------------------------------
    pc,                    \* position of the script's main thread
    ticker_input, anos_input, taxa_retorno_input,
    tickers,               \* sanitizar_tickers(ticker_input)
    max_workers,           \* ThreadPoolExecutor(max_workers=...), 0 = no pool
    threads,               \* worker threads the pool has spawned
    submitted,             \* number of executor.submit calls made
    queue,                 \* the pool's FIFO work queue (task indices)
    running,               \* task indices a worker is executing
    finished,              \* task index -> outcome, for completed futures
    consumed,              \* task indices as_completed has yielded, in order
    data_valuation, data_indicadores, data_indicadores_extras,
    data_estatisticas, data_grafico, alertas,
    erros,                 \* tickers logged by the loop's except branch
    st_error,              \* the st.error shown before st.stop(), "" when none
    max_pl_filter, min_dy_filter, min_ms_filter,    \* sidebar filters
    df_valuation,          \* the sorted valuation table
    tem_setor_financeiro   \* <<>> until evaluated, then <<TRUE>> or <<FALSE>>

nvars == <<n_pc, n_input, n_output>>
dvars == <<d_pc, d_hist, d_anos, d_now, d_out>>
cvars == <<c_pc, c_fn, c_args, c_out>>
kvars == <<k_relogio, k_ticks, k_mundo, k_cache, k_last>>
bvars == <<pc, ticker_input, anos_input, taxa_retorno_input, tickers,
           max_workers, threads, submitted, queue, running, finished,
           consumed, data_valuation, data_indicadores,
           data_indicadores_extras, data_estatisticas, data_grafico,
           alertas, erros, st_error, max_pl_filter, min_dy_filter,
           min_ms_filter, df_valuation, tem_setor_financeiro>>
vars == <<nvars, dvars, cvars, kvars, bvars>>

\* Python None, kept apart from every number the model computes
None == 0 - 1000000

Min(a, b) == IF a <= b THEN a ELSE b
Max(a, b) == IF a >= b THEN a ELSE b

Range(s) == {s[i] : i \in 1..Len(s)}

RECURSIVE SumSeq(_)
SumSeq(s) == IF s = <<>> THEN 0 ELSE Head(s) + SumSeq(Tail(s))

\* ---------------------------------------------------------------------------
\* Program constants
\* ---------------------------------------------------------------------------
MAX_WORKERS_THREAD_POOL == 5
MAX_TICKERS_PERMITIDOS == 20

\* ---------------------------------------------------------------------------
\* Bounds of the model
\* ---------------------------------------------------------------------------
MaxPrefix == 22     \* longest run of distinct valid tokens in a raw input
MaxTail == 2        \* arbitrary raw tokens following that run

\* ---------------------------------------------------------------------------
\* Strings
\* ---------------------------------------------------------------------------
Letters == <<"A", "B", "C">>
Digits == <<"0", "1", "2", "3", "4", "5", "6", "7", "8", "9">>
Alfabeto == <<"A", "B", "C", "D", "E", "F", "G", "H", "I", "J", "K", "L", "M",
              "N", "O", "P", "Q", "R", "S", "T", "U", "V", "W", "X", "Y", "Z">>

\* str.upper() on the characters the inputs use
UpperChar(c) ==
    CASE c = "a" -> "A"
      [] c = "b" -> "B"
      [] c = "g" -> "G"
      [] OTHER -> c

Upper(s) == [i \in 1..Len(s) |-> UpperChar(s[i])]

IsSpace(c) == c = " "

\* str.strip(): drops leading and trailing whitespace
RECURSIVE LStrip(_)
LStrip(s) == IF s # <<>> /\ IsSpace(Head(s)) THEN LStrip(Tail(s)) ELSE s

RECURSIVE RStrip(_)
RStrip(s) ==
    IF s # <<>> /\ IsSpace(s[Len(s)]) THEN RStrip(SubSeq(s, 1, Len(s) - 1))
    ELSE s

Strip(s) == RStrip(LStrip(s))

\* str.split(','): the pieces between commas, empty pieces included
RECURSIVE SplitFrom(_, _, _)
SplitFrom(s, i, cur) ==
    IF i > Len(s) THEN <<cur>>
    ELSE IF s[i] = "," THEN <<cur>> \o SplitFrom(s, i + 1, <<>>)
    ELSE SplitFrom(s, i + 1, Append(cur, s[i]))

Split(s) == SplitFrom(s, 1, <<>>)

\* ",".join(tokens)
RECURSIVE Join(_)
Join(toks) ==
    IF toks = <<>> THEN <<>>
    ELSE IF Len(toks) = 1 THEN toks[1]
    ELSE toks[1] \o <<",">> \o Join(Tail(toks))

\* ---------------------------------------------------------------------------
\* validar_ticker, sanitizar_tickers
\* ---------------------------------------------------------------------------
\* the character class [A-Z0-9\.\-]
PadraoChars == Range(Alfabeto) \cup Range(Digits) \cup {".", "-"}

\* variation: the class also admits the blank
ValidarTickerBlank(ticker) ==
    LET t == Upper(Strip(ticker))
    IN  /\ ticker # <<>>
        /\ t # <<>>
        /\ \A i \in 1..Len(t) : t[i] \in PadraoChars \cup {" "}

\* re.compile(r'^[A-Z0-9\.\-]+$').match(ticker.strip().upper())
ValidarTicker(ticker) ==
    LET t == Upper(Strip(ticker))
    IN  /\ ticker # <<>>
        /\ t # <<>>
        /\ \A i \in 1..Len(t) : t[i] \in PadraoChars

\* [t.strip().upper() for t in ticker_input.split(',') if t.strip()]
RECURSIVE TickersBrutos(_)
TickersBrutos(pieces) ==
    IF pieces = <<>> THEN <<>>
    ELSE IF Strip(Head(pieces)) # <<>>
         THEN <<Upper(Strip(Head(pieces)))>> \o TickersBrutos(Tail(pieces))
         ELSE TickersBrutos(Tail(pieces))

\* [t for t in tickers_brutos if validar_ticker(t)]
RECURSIVE TickersValidos(_)
TickersValidos(brutos) ==
    IF brutos = <<>> THEN <<>>
    ELSE IF ValidarTicker(Head(brutos))
         THEN <<Head(brutos)>> \o TickersValidos(Tail(brutos))
         ELSE TickersValidos(Tail(brutos))

\* variation: the limit keeps the last MAX_TICKERS_PERMITIDOS tickers
SanitizarTickersLast(input) ==
    IF input = <<>> THEN <<>>
    ELSE LET validos == TickersValidos(TickersBrutos(Split(input)))
         IN  IF Len(validos) > MAX_TICKERS_PERMITIDOS
             THEN SubSeq(validos, Len(validos) - MAX_TICKERS_PERMITIDOS + 1,
                         Len(validos))
             ELSE validos

SanitizarTickers(input) ==
    IF input = <<>> THEN <<>>
    ELSE LET validos == TickersValidos(TickersBrutos(Split(input)))
         IN  IF Len(validos) > MAX_TICKERS_PERMITIDOS
             THEN SubSeq(validos, 1, MAX_TICKERS_PERMITIDOS)
             ELSE validos

\* ---------------------------------------------------------------------------
\* Raw inputs of the normalizer
\* ---------------------------------------------------------------------------
\* the k-th of 30 distinct well-formed tickers: A0, A1, ..., C9
Ticker(k) == <<Letters[((k - 1) \div 10) + 1], Digits[((k - 1) % 10) + 1]>>

Prefix(k) == [i \in 1..k |-> Ticker(i)]

\* raw tokens as a user types them: blank, padded, lower case, malformed,
\* a repeat of the first ticker, a ticker beyond the prefix
RawTokens ==
    { <<>>, <<" ">>, <<" ", "a", "0", " ">>, <<"A", "0">>, <<"C", "9">>,
      <<"A", "@">>, <<"A", " ", "B">>, <<"b", ".", "-">> }

SeqsUpTo(S, n) == UNION {[1..m -> S] : m \in 0..n}

NormInputs ==
    {Join(Prefix(k) \o tail) : k \in 0..MaxPrefix, tail \in SeqsUpTo(RawTokens, MaxTail)}

\* ---------------------------------------------------------------------------
\* Calendar
\* ---------------------------------------------------------------------------
\* datetime.now(fuso_horario).year
CurrentYear == 2026

IsLeap(y) == y % 4 = 0          \* exact for 2001..2099

DaysInYear(y) == IF IsLeap(y) THEN 366 ELSE 365

\* days from 1 January 2000 to 1 January of year y >= 2000: 365 a year and
\* one more for each leap year 2000, 2004, ... before y
DaysBefore(y) == (y - 2000) * 365 + ((y - 2000 + 3) \div 4)

\* the day number of day-of-year doy of year y
DayNum(y, doy) == DaysBefore(y) + doy

\* ---------------------------------------------------------------------------
\* Sorting small sequences (DataFrame.sort_values on a column of distinct
\* keys, Series.median)
\* ---------------------------------------------------------------------------
RECURSIVE InsertInt(_, _)
InsertInt(x, s) ==
    IF s = <<>> THEN <<x>>
    ELSE IF x <= Head(s) THEN <<x>> \o s
    ELSE <<Head(s)>> \o InsertInt(x, Tail(s))

RECURSIVE SortInts(_)
SortInts(s) == IF s = <<>> THEN <<>> ELSE InsertInt(Head(s), SortInts(Tail(s)))

RECURSIVE InsertAnoDesc(_, _)
InsertAnoDesc(r, s) ==
    IF s = <<>> THEN <<r>>
    ELSE IF r.Ano >= Head(s).Ano THEN <<r>> \o s
    ELSE <<Head(s)>> \o InsertAnoDesc(r, Tail(s))

RECURSIVE SortAnoDesc(_)
SortAnoDesc(s) ==
    IF s = <<>> THEN <<>> ELSE InsertAnoDesc(Head(s), SortAnoDesc(Tail(s)))

Reverse(s) == [i \in 1..Len(s) |-> s[Len(s) + 1 - i]]

SortAnoAsc(s) == Reverse(SortAnoDesc(s))

Col(rows, f) == [i \in 1..Len(rows) |-> rows[i][f]]

\* Series.mean() and Series.median() of a non-empty column; the amounts of
\* the inputs are multiples of 60, so both divisions are exact
Mean(vals) == SumSeq(vals) \div Len(vals)

Median(vals) ==
    LET s == SortInts(vals)
        n == Len(s)
    IN  IF n % 2 = 1 THEN s[(n + 1) \div 2]
        ELSE (s[n \div 2] + s[(n \div 2) + 1]) \div 2

\* ---------------------------------------------------------------------------
\* obter_dados_dpa
\* ---------------------------------------------------------------------------
\* A dividend history is [raises, obs]: whether the Gateway call raises, and
\* the set of observations [ano, doy, valor], at most one per date.  An observation is
\* stamped 00:00 of its day and `now` is later than 00:00 of its own day, so
\* the slice dividends.loc[start_date:end_date] keeps the days d with
\* now - anos*365 < d <= now.

ObsDay(o) == DayNum(o.ano, o.doy)

DivFiltrado(hist, anos, now) ==
    {o \in hist : ObsDay(o) > now - anos * 365 /\ ObsDay(o) <= now}

RECURSIVE SumObs(_)
SumObs(S) ==
    IF S = {} THEN 0
    ELSE LET o == CHOOSE x \in S : TRUE IN o.valor + SumObs(S \ {o})

\* div_filtrado.resample('YE').sum(): one row per calendar year from the
\* first to the last year that holds an observation, 0 for a year between
\* them that holds none
DivAnual(filt) ==
    IF filt = {} THEN <<>>
    ELSE LET lo == CHOOSE y \in {o.ano : o \in filt} :
                       \A o \in filt : y <= o.ano
             hi == CHOOSE y \in {o.ano : o \in filt} :
                       \A o \in filt : y >= o.ano
         IN  [i \in 1..(hi - lo + 1) |->
                 [Ano |-> lo + i - 1,
                  DPA |-> SumObs({o \in filt : o.ano = lo + i - 1})]]

YearNow(now) == CHOOSE y \in (2000 + (now \div 366))..(2000 + (now \div 365)) :
                    DayNum(y, 1) <= now /\ now < DayNum(y + 1, 1)

\* div_anual[div_anual['Ano'] < datetime.now(fuso_horario).year]
DivCompleto(rows, now) == SelectSeq(rows, LAMBDA r : r.Ano < YearNow(now))

\* DataFrame.head(n)
HeadRows(rows, n) == SubSeq(rows, 1, Min(n, Len(rows)))

DpaVazio(erro) == [df |-> <<>>, media |-> 0, mediana |-> 0, erro |-> erro]

\* variation: the trim to the N most recent years is left out (the earlier
\* variants get_dpa_data have no .head(anos)) and the window is anos*366 days
ObterDadosDpaWide(hist, anos, now) ==
    IF hist.raises THEN DpaVazio("Erro")
    ELSE IF hist.obs = {} THEN DpaVazio("")
    ELSE LET filt == {o \in hist.obs : ObsDay(o) > now - anos * 366 - 366
                                   /\ ObsDay(o) <= now}
             comp == SortAnoDesc(DivCompleto(DivAnual(filt), now))
         IN  [df |-> SortAnoAsc(comp),
              media |-> IF comp # <<>> THEN Mean(Col(comp, "DPA")) ELSE 0,
              mediana |-> IF comp # <<>> THEN Median(Col(comp, "DPA")) ELSE 0,
              erro |-> ""]

ObterDadosDpa(hist, anos, now) ==
    IF hist.raises THEN DpaVazio("Erro")
    ELSE IF hist.obs = {} THEN DpaVazio("")
    ELSE LET comp == HeadRows(SortAnoDesc(DivCompleto(
                         DivAnual(DivFiltrado(hist.obs, anos, now)), now)), anos)
         IN  [df |-> SortAnoAsc(comp),
              media |-> IF comp # <<>> THEN Mean(Col(comp, "DPA")) ELSE 0,
              mediana |-> IF comp # <<>> THEN Median(Col(comp, "DPA")) ELSE 0,
              erro |-> ""]

\* ---------------------------------------------------------------------------
\* Dividend histories and clocks given to obter_dados_dpa
\* ---------------------------------------------------------------------------
HistYears == 3      \* calendar years a history may span, the current one last
MaxAnos == 2        \* largest year window requested

\* dates a dividend may be paid on within a year: 1 March and 6 December
\* (day-of-year in a common year)
Slots == {60, 340}

HistDates == {[ano |-> y, doy |-> sl] :
                 y \in (CurrentYear - HistYears + 1)..CurrentYear, sl \in Slots}

\* one payment of 60 or 120 on any subset of the early dates, 60 on any
\* subset of the late dates
Raises == [raises |-> TRUE, obs |-> {}]

Observed(obs) == [raises |-> FALSE, obs |-> obs]

Histories ==
    {Raises} \cup
    UNION {
      { Observed({[ano |-> d.ano, doy |-> d.doy,
                   valor |-> IF d.doy = 340 THEN 60
                             ELSE (IF d \in big THEN 120 ELSE 60)] : d \in ds})
          : big \in SUBSET {d \in ds : d.doy = 60} }
      : ds \in SUBSET HistDates }

\* 1 January, 4 November and 31 December of the current year
Clocks == {DayNum(CurrentYear, 1), DayNum(CurrentYear, 308),
           DayNum(CurrentYear, 365)}

\* ---------------------------------------------------------------------------
\* Python dicts and truthiness
\* ---------------------------------------------------------------------------
\* dict.get(k): None when the key is absent
Get(d, k) == IF k \in DOMAIN d THEN d[k] ELSE None

\* dict.update(other)
Update(d, other) ==
    [k \in (DOMAIN d) \cup (DOMAIN other) |->
        IF k \in DOMAIN other THEN other[k] ELSE d[k]]

\* bool(x) of a number or None
Truthy(x) == x # None /\ x # 0

\* a or b
Or(a, b) == IF Truthy(a) THEN a ELSE b

RECURSIVE Pow(_, _)
Pow(b, n) == IF n = 0 THEN 1 ELSE b * Pow(b, n - 1)

\* floor of the square root
RECURSIVE ISqrtFrom(_, _)
ISqrtFrom(x, r) == IF (r + 1) * (r + 1) > x THEN r ELSE ISqrtFrom(x, r + 1)

ISqrt(x) ==
    LET c == ISqrtFrom(x \div 10000, 0) * 100     \* coarse start, c*c <= x
    IN  ISqrtFrom(x, c)

RECURSIVE Gcd(_, _)
Gcd(a, b) == IF b = 0 THEN a ELSE Gcd(b, a % b)

\* ((vf / vi) ** (1 / n) - 1) * 100 for vi > 0, vf > 0, n >= 1, to the whole
\* percent below it: the r with (100+r)^n * vi <= vf * 100^n < (101+r)^n * vi
RECURSIVE GrowthBisect(_, _, _, _, _)
GrowthBisect(a, b, n, lo, hi) ==
    IF lo >= hi THEN lo
    ELSE LET mid == (lo + hi + 1) \div 2
         IN  IF Pow(100 + mid, n) * a <= b * Pow(100, n)
             THEN GrowthBisect(a, b, n, mid, hi)
             ELSE GrowthBisect(a, b, n, lo, mid - 1)

GrowthPct(vi, vf, n) ==
    LET g == Gcd(vi, vf)
        a == vi \div g
        b == vf \div g
    IN  IF a = b THEN 0
        ELSE GrowthBisect(a, b, n, 0 - 100, Max(0, ((b * 100) \div a) - 100))

\* ---------------------------------------------------------------------------
\* Valuation formulas
\* ---------------------------------------------------------------------------
\* variation: the percentage is passed on without the division by 100
TaxaRetornoSemConversao(taxa_input) == taxa_input * 1000

\* taxa_retorno_input / 100: from tenths of a percent to 1/10000
TaxaRetornoDecimal(taxa_input) == taxa_input * 10

\* media_dpa / taxa_retorno, in centavos
CalcularPrecoTetoBazin(media_dpa, taxa_retorno) ==
    IF media_dpa > 0 /\ taxa_retorno > 0
    THEN (media_dpa * 10000) \div taxa_retorno
    ELSE 0

\* sqrt(22.5 * lpa * vpa), in centavos, rounded down
CalcularPrecoGraham(lpa, vpa) ==
    IF Truthy(lpa) /\ Truthy(vpa) /\ lpa > 0 /\ vpa > 0
    THEN ISqrt((45 * lpa * vpa) \div 2)
    ELSE 0

\* variation: the sentinel of an undefined margin is 0
CalcularMargemSegurancaZero(preco_teto, preco_atual) ==
    IF preco_atual > 0 /\ preco_teto > 0
    THEN ((preco_teto * 100) \div preco_atual) - 100
    ELSE 0

\* ((preco_teto / preco_atual) - 1) * 100
CalcularMargemSeguranca(preco_teto, preco_atual) ==
    IF preco_atual > 0 /\ preco_teto > 0
    THEN ((preco_teto * 100) \div preco_atual) - 100
    ELSE 0 - 100

\* ---- the margin in binary floating point ----
\* A Python float is an IEEE 754 double: a sign, and a magnitude
\* int(bits) * 2^exp whose bits (most significant first, no leading zero; <<>>
\* is zero) are at most Mantissa long after every operation.
Mantissa == 53

Zeros(n) == [k \in 1..n |-> 0]

PadBits(b, n) == Zeros(n - Len(b)) \o b

\* b without its leading zeros
NormBits(b) ==
    LET uns == {k \in 1..Len(b) : b[k] = 1}
    IN  IF uns = {} THEN <<>>
        ELSE SubSeq(b, CHOOSE k \in uns : \A j \in uns : k <= j, Len(b))

\* b + 1: the last zero becomes a one and the ones after it zeros
IncBits(b) ==
    LET zeros == {k \in 1..Len(b) : b[k] = 0}
        z     == CHOOSE k \in zeros : \A j \in zeros : j <= k
    IN  IF zeros = {} THEN <<1>> \o Zeros(Len(b))
        ELSE [k \in 1..Len(b) |->
                 IF k < z THEN b[k] ELSE IF k = z THEN 1 ELSE 0]

\* x + y + c of two bit strings of one width, the carry out in front; the
\* carry into position k comes from a position to its right that generates
\* one (two ones, or the carry in c) through positions that pass it on
SomarC(x, y, c) ==
    LET n == Len(x)
        Gera(j) == IF j = n + 1 THEN c = 1 ELSE x[j] + y[j] = 2
        Vai(k) == \E j \in (k + 1)..(n + 1) :
                      Gera(j) /\ \A i \in (k + 1)..(j - 1) : x[i] + y[i] >= 1
    IN  (IF Vai(0) THEN <<1>> ELSE <<>>)
            \o [k \in 1..n |->
                   (x[k] + y[k] + (IF Vai(k) THEN 1 ELSE 0)) % 2]

SomarBits(x, y) ==
    LET w == Max(Len(x), Len(y))
    IN  SomarC(PadBits(x, w), PadBits(y, w), 0)

\* x - y for x >= y of one width: x + ~y + 1 without the carry out
SubtrairBits(x, y) ==
    NormBits(Tail(SomarC(x, [k \in 1..Len(y) |-> 1 - y[k]], 1)))

\* the bits of x in units of 2^min(x.exp, y.exp), at the common width
Alinhado(x, y) ==
    LET e  == Min(x.exp, y.exp)
        bx == x.bits \o Zeros(x.exp - e)
        by == y.bits \o Zeros(y.exp - e)
    IN  PadBits(bx, Max(Len(bx), Len(by)))

MagIgual(x, y) == Alinhado(x, y) = Alinhado(y, x)

MagMenor(x, y) ==
    LET a == Alinhado(x, y)
        b == Alinhado(y, x)
    IN  \E k \in 1..Len(a) :
            a[k] < b[k] /\ \A j \in 1..(k - 1) : a[j] = b[j]

\* round to nearest, ties to even, at Mantissa significant bits
Arredondar(x) ==
    LET n      == Len(x.bits)
        top    == SubSeq(x.bits, 1, Mantissa)
        guard  == x.bits[Mantissa + 1]
        sticky == \E k \in (Mantissa + 2)..n : x.bits[k] = 1
        up     == guard = 1 /\ (sticky \/ top[Mantissa] = 1)
    IN  IF n <= Mantissa THEN x
        ELSE [x EXCEPT !.bits = IF up THEN IncBits(top) ELSE top,
                       !.exp = x.exp + (n - Mantissa)]

Um == [neg |-> FALSE, bits |-> <<1>>, exp |-> 0]

\* 100.0 = 25 * 2^2
Cem == [neg |-> FALSE, bits |-> <<1, 1, 0, 0, 1>>, exp |-> 2]

\* preco_teto / preco_atual for a preco_atual that is a power of two, where
\* the quotient is exact
DividirF64(x, y) == Arredondar([x EXCEPT !.exp = x.exp - y.exp])

\* x - 1 for x >= 0
MenosUmF64(x) ==
    LET a == Alinhado(x, Um)
        b == Alinhado(Um, x)
        e == Min(x.exp, 0)
    IN  IF MagMenor(x, Um)
        THEN Arredondar([neg |-> TRUE, bits |-> SubtrairBits(b, a), exp |-> e])
        ELSE Arredondar([neg |-> FALSE, bits |-> SubtrairBits(a, b), exp |-> e])

\* x * 100 = x * 64 + x * 32 + x * 4
Vezes100F64(x) ==
    Arredondar([x EXCEPT !.bits =
        NormBits(SomarBits(SomarBits(x.bits \o Zeros(6), x.bits \o Zeros(5)),
                           x.bits \o Zeros(2)))])

\* calcular_margem_seguranca on doubles:
\* ((preco_teto / preco_atual) - 1) * 100, every operation rounded, and
\* -100.0 when an input is not positive
CalcularMargemSegurancaF64(preco_teto, preco_atual) ==
    IF (~preco_atual.neg /\ preco_atual.bits # <<>>)
       /\ (~preco_teto.neg /\ preco_teto.bits # <<>>)
    THEN Vezes100F64(MenosUmF64(DividirF64(preco_teto, preco_atual)))
    ELSE [Cem EXCEPT !.neg = TRUE]

\* calcular_cagr_dpa on the rows df_dpa (ascending years)
CalcularCagrDpa(df_dpa, anos, now) ==
    IF Len(df_dpa) < 2 THEN 0
    ELSE LET completo == SelectSeq(df_dpa, LAMBDA r : r.Ano < YearNow(now))
         IN  IF Len(completo) < 2 THEN 0
             ELSE LET rows == SortAnoAsc(HeadRows(SortAnoDesc(completo), anos))
                      valor_inicial == rows[1].DPA
                      valor_final == rows[Len(rows)].DPA
                  IN  IF Len(rows) < 2 THEN 0
                      ELSE IF valor_inicial <= 0 \/ valor_final <= 0 THEN 0
                      ELSE GrowthPct(valor_inicial, valor_final, Len(rows) - 1)

\* (dividendos_anuais / lucro_por_acao) * 100
CalcularPayoutRatio(dados_info) ==
    LET dividendos_anuais == Or(Get(dados_info, "_dividendRate"), 0)
        lucro_por_acao == Or(Get(dados_info, "LPA"), 0)
    IN  IF lucro_por_acao <= 0 \/ dividendos_anuais <= 0 THEN 0
        ELSE (dividendos_anuais * 100) \div lucro_por_acao

\* variation: the loop has no break
RECURSIVE ContarConsecutivosSemBreak(_)
ContarConsecutivosSemBreak(rows) ==
    IF rows = <<>> THEN 0
    ELSE (IF Head(rows).DPA > 0 THEN 1 ELSE 0)
             + ContarConsecutivosSemBreak(Tail(rows))

\* the loop of calcular_anos_consecutivos over rows sorted by year descending
RECURSIVE ContarConsecutivos(_)
ContarConsecutivos(rows) ==
    IF rows = <<>> THEN 0
    ELSE IF Head(rows).DPA > 0 THEN 1 + ContarConsecutivos(Tail(rows))
    ELSE 0

CalcularAnosConsecutivos(df_dpa, now) ==
    IF df_dpa = <<>> THEN 0
    ELSE LET completo == SelectSeq(df_dpa, LAMBDA r : r.Ano < YearNow(now))
         IN  IF completo = <<>> THEN 0
             ELSE ContarConsecutivos(SortAnoDesc(completo))

\* ---------------------------------------------------------------------------
\* The Market Data Gateway (yfinance) as the fetch functions see it
\* ---------------------------------------------------------------------------
\* What the provider holds for one ticker:
\*   crash      processar_ticker itself raises (an error outside the
\*              documented ones, raised where its own handler cannot catch it)
\*   raises     every Gateway call for the ticker raises
\*   inesperado a step of the try block of processar_ticker raises
\*   hangs      a Gateway call for the ticker does not return
\*   falha      the one fetch step whose Gateway call raises ("" for none):
\*              "dpa", "fund", "cagr", "saz" or "preco"
\*   dividends  set of observations [ano, doy, valor]
\*   info       dict of the fundamentals the provider filled in
\*   bs, fin, cf  statement tables: dict line item -> values in date order
\*              (fin), or -> most recent value (bs, cf); NaN is a missing cell
\*   history    set of [ano, mes, close], the closing price of each month

NaN == 0 - 2000000

IsNum(x) == x # None /\ x # NaN

MonthNames == <<"Jan", "Feb", "Mar", "Apr", "May", "Jun",
                "Jul", "Aug", "Sep", "Oct", "Nov", "Dec">>

\* cumulative days before each month of a common year
MonthStart == <<0, 31, 59, 90, 120, 151, 181, 212, 243, 273, 304, 334>>

MonthOf(ano, doy) ==
    LET leap(m) == IF IsLeap(ano) /\ m > 2 THEN 1 ELSE 0
    IN  CHOOSE m \in 1..12 :
            /\ doy > MonthStart[m] + leap(m)
            /\ (m = 12 \/ doy <= MonthStart[m + 1] + leap(m + 1))

\* ticker.history(period=f"{anos}y"): the months of the last `anos` years
HistoryPeriod(history, anos, now) ==
    LET y == YearNow(now)
        m == MonthOf(y, now - DayNum(y, 1) + 1)
    IN  {h \in history : h.ano * 12 + h.mes > (y - anos) * 12 + m
                         /\ h.ano * 12 + h.mes <= y * 12 + m}

\* the months of S in ascending order
RECURSIVE SortMonths(_)
SortMonths(S) ==
    IF S = {} THEN <<>>
    ELSE LET m == CHOOSE x \in S : \A z \in S : x <= z
         IN  <<m>> \o SortMonths(S \ {m})

MonthNamesOf(S) == LET ms == SortMonths(S) IN [i \in 1..Len(ms) |-> MonthNames[ms[i]]]

RECURSIVE SumCloses(_)
SumCloses(S) ==
    IF S = {} THEN 0
    ELSE LET h == CHOOSE x \in S : TRUE IN h.close + SumCloses(S \ {h})

\* mensal_media.nsmallest(3): the months of lowest mean close, the earlier
\* month first among equal means
MesesBaratos(hist) ==
    LET meses == {h.mes : h \in hist}
        soma == [m \in meses |-> SumCloses({h \in hist : h.mes = m})]
        cnt == [m \in meses |-> Cardinality({h \in hist : h.mes = m})]
        \* mean(a) < mean(b), or equal and a earlier
        antes(a, b) == \/ soma[a] * cnt[b] < soma[b] * cnt[a]
                       \/ soma[a] * cnt[b] = soma[b] * cnt[a] /\ a < b
        rank(m) == Cardinality({z \in meses : antes(z, m)})
    IN  {m \in meses : rank(m) < 3}

\* obter_sazonalidade_e_dividendos: <<col_pagto, col_sazonalidade>>, each the
\* list of month names the code joins with ", ", or the one marker it returns
ObterSazonalidadeEDividendos(gw, anos, now) ==
    IF gw.raises THEN <<(<<"Erro">>), (<<"Erro">>)>>
    ELSE LET hist == HistoryPeriod(gw.history, anos, now)
             mes_de == [o \in gw.dividends |-> MonthOf(o.ano, o.doy)]
             conta(m) == Cardinality({o \in gw.dividends : mes_de[o] = m})
             meses_pagto == {m \in {mes_de[o] : o \in gw.dividends} :
                                conta(m) * 10 >= anos * 3}
             col_pagto == IF gw.dividends # {} /\ meses_pagto # {}
                          THEN MonthNamesOf(meses_pagto)
                          ELSE <<"Sem Div.">>
         IN  IF hist = {} THEN <<(<<"N/A">>), (<<"N/A">>)>>
             ELSE <<col_pagto, MonthNamesOf(MesesBaratos(hist))>>

\* next((k for k in chaves if k in df.index), None); NoKey is that None
NoKey == ""

RECURSIVE FirstKey(_, _)
FirstKey(chaves, tabela) ==
    IF chaves = <<>> THEN NoKey
    ELSE IF Head(chaves) \in DOMAIN tabela THEN Head(chaves)
    ELSE FirstKey(Tail(chaves), tabela)

\* a / b of two floats, in thousandths; NaN in, NaN out
Ratio(a, b) == IF a = NaN \/ b = NaN THEN NaN ELSE (a * 1000) \div b

\* variation: the primary field is tested for truth, so that 0 counts as
\* absent (the condition before the v2.1 correction)
DividaPlTruthy(gw) ==
    LET primario == Get(gw.info, "debtToEquity")
        chave_divida == FirstKey(<<"Total Debt", "Long Term Debt",
                                   "Short Long Term Debt">>, gw.bs)
        chave_pl == FirstKey(<<"Stockholders Equity", "Total Stockholder Equity",
                               "Common Stock Equity">>, gw.bs)
    IN  IF Truthy(primario) THEN primario * 10
        ELSE IF DOMAIN gw.bs = {} THEN None
        ELSE IF chave_divida = NoKey \/ chave_pl = NoKey THEN None
        ELSE IF gw.bs[chave_pl] # 0
             THEN Ratio(gw.bs[chave_divida], gw.bs[chave_pl])
             ELSE None

\* the Divida/PL of obter_dados_fundamentalistas, in thousandths
DividaPl(gw) ==
    LET primario == Get(gw.info, "debtToEquity")
        chave_divida == FirstKey(<<"Total Debt", "Long Term Debt",
                                   "Short Long Term Debt">>, gw.bs)
        chave_pl == FirstKey(<<"Stockholders Equity", "Total Stockholder Equity",
                               "Common Stock Equity">>, gw.bs)
    IN  IF primario # None THEN primario * 10
        ELSE IF DOMAIN gw.bs = {} THEN None
        ELSE IF chave_divida = NoKey \/ chave_pl = NoKey THEN None
        ELSE IF gw.bs[chave_pl] # 0       \* NaN is truthy and differs from 0
             THEN Ratio(gw.bs[chave_divida], gw.bs[chave_pl])
             ELSE None

\* variation: EBITDA rebuilt as EBIT + D&A, without the absolute value
DividaEbitdaSemAbs(gw) ==
    LET primario == Get(gw.info, "debtToEbitda")
        chave_divida == FirstKey(<<"Total Debt", "Long Term Debt",
                                   "Short Long Term Debt">>, gw.bs)
        chave_ebit == FirstKey(<<"EBIT", "Operating Income">>, gw.fin)
        chave_da == FirstKey(<<"Depreciation And Amortization", "Depreciation",
                               "Reconciled Depreciation">>, gw.cf)
        ebit == LET v == gw.fin[chave_ebit] IN v[Len(v)]
        da == gw.cf[chave_da]
        ebitda == IF ebit = NaN \/ da = NaN THEN NaN ELSE ebit + da
    IN  IF primario # None THEN primario
        ELSE IF DOMAIN gw.bs = {} \/ DOMAIN gw.fin = {} \/ DOMAIN gw.cf = {}
             THEN None
        ELSE IF chave_divida = NoKey \/ chave_ebit = NoKey \/ chave_da = NoKey
             THEN None
        ELSE IF ebitda # 0 THEN Ratio(gw.bs[chave_divida], ebitda)
        ELSE None

\* the Divida/EBITDA of obter_dados_fundamentalistas, in thousandths
DividaEbitda(gw) ==
    LET primario == Get(gw.info, "debtToEbitda")
        chave_divida == FirstKey(<<"Total Debt", "Long Term Debt",
                                   "Short Long Term Debt">>, gw.bs)
        chave_ebit == FirstKey(<<"EBIT", "Operating Income">>, gw.fin)
        chave_da == FirstKey(<<"Depreciation And Amortization", "Depreciation",
                               "Reconciled Depreciation">>, gw.cf)
        ebit == LET v == gw.fin[chave_ebit] IN v[Len(v)]
        da == gw.cf[chave_da]
        ebitda == IF ebit = NaN \/ da = NaN THEN NaN
                  ELSE ebit + (IF da < 0 THEN 0 - da ELSE da)
    IN  IF primario # None THEN primario
        ELSE IF DOMAIN gw.bs = {} \/ DOMAIN gw.fin = {} \/ DOMAIN gw.cf = {}
             THEN None
        ELSE IF chave_divida = NoKey \/ chave_ebit = NoKey \/ chave_da = NoKey
             THEN None
        ELSE IF ebitda # 0 THEN Ratio(gw.bs[chave_divida], ebitda)
        ELSE None

\* obter_dados_fundamentalistas
ObterDadosFundamentalistas(t, gw) ==
    IF gw.raises THEN [k \in {"Ticker"} |-> t]
    ELSE [k \in {"Ticker", "P/L", "P/VP", "ROE", "DY", "Setor", "Divida/PL",
                 "Divida/EBITDA", "EV/EBITDA", "LPA", "VPA", "_dividendRate"} |->
            CASE k = "Ticker" -> t
              [] k = "P/L" -> Get(gw.info, "trailingPE")
              [] k = "P/VP" -> Get(gw.info, "priceToBook")
              [] k = "ROE" -> Get(gw.info, "returnOnEquity")
              [] k = "DY" -> Get(gw.info, "dividendYield")
              [] k = "Setor" -> Get(gw.info, "sector")
              [] k = "Divida/PL" -> DividaPl(gw)
              [] k = "Divida/EBITDA" -> DividaEbitda(gw)
              [] k = "EV/EBITDA" -> Get(gw.info, "enterpriseToEbitda")
              [] k = "LPA" -> Get(gw.info, "trailingEps")
              [] k = "VPA" -> Get(gw.info, "bookValue")
              [] k = "_dividendRate" -> Get(gw.info, "dividendRate")]

\* The Gateway accesses obter_dados_fundamentalistas makes, in order, each
\* tagged with the indicator it is made for: ticker.info first (it raises
\* when the provider fails), then the statement tables of each fallback
\* whose `is None` test passes.
ChamadasFundamentalistas(gw) ==
    IF gw.raises THEN <<[passo |-> "info", tabela |-> "info"]>>
    ELSE <<[passo |-> "info", tabela |-> "info"]>>
         \o (IF Get(gw.info, "debtToEquity") = None
             THEN <<[passo |-> "Divida/PL", tabela |-> "balance_sheet"]>>
             ELSE <<>>)
         \o (IF Get(gw.info, "debtToEbitda") = None
             THEN <<[passo |-> "Divida/EBITDA", tabela |-> "balance_sheet"],
                    [passo |-> "Divida/EBITDA", tabela |-> "financials"],
                    [passo |-> "Divida/EBITDA", tabela |-> "cashflow"]>>
             ELSE <<>>)

\* Series.dropna()
DropNa(s) == SelectSeq(s, LAMBDA v : v # NaN)

\* df.loc[chave].sort_index().iloc[-years-1:]
LastN(s, n) == SubSeq(s, Max(1, Len(s) - n + 1), Len(s))

\* calcular_cagr of obter_dados_cagr, in whole percent.  A negative ratio
\* under a fractional exponent is NaN for the float64 cells of the table.
CalcularCagr(tabela, chaves_possiveis, years) ==
    LET chave == FirstKey(chaves_possiveis, tabela)
        serie == DropNa(LastN(tabela[chave], years + 1))
        valor_inicial == serie[1]
        valor_final == serie[Len(serie)]
        n_periodos == Len(serie) - 1
    IN  IF chave = NoKey THEN None
        ELSE IF Len(serie) < 2 THEN None
        ELSE IF valor_inicial = 0 THEN None
        ELSE IF valor_inicial > 0 /\ valor_final >= 0
             THEN GrowthPct(valor_inicial, valor_final, n_periodos)
        ELSE IF valor_inicial < 0 /\ valor_final <= 0
             THEN GrowthPct(0 - valor_inicial, 0 - valor_final, n_periodos)
        ELSE IF n_periodos = 1
             THEN ((valor_final * 100) \div valor_inicial) - 100
        ELSE NaN

\* obter_dados_cagr(ticker_symbol), years = 5
ObterDadosCagr(gw) ==
    IF gw.raises THEN <<>>
    ELSE IF DOMAIN gw.fin = {}
         THEN [k \in {"CAGR Receita 5a", "CAGR Lucro 5a"} |-> None]
    ELSE [k \in {"CAGR Receita 5a", "CAGR Lucro 5a"} |->
            IF k = "CAGR Receita 5a"
            THEN CalcularCagr(gw.fin, <<"Total Revenue">>, 5)
            ELSE CalcularCagr(gw.fin, <<"Net Income">>, 5)]

\* obter_preco_atual
ObterPrecoAtual(gw) ==
    IF gw.raises THEN 0
    ELSE Or(Get(gw.info, "regularMarketPrice"),
            Or(Get(gw.info, "currentPrice"), 0))

\* ---------------------------------------------------------------------------
\* processar_ticker
\* ---------------------------------------------------------------------------
\* variation: the fetch steps share the fate of the one that fails
PassoAcoplado(gw, nome) == [gw EXCEPT !.raises = gw.raises \/ gw.falha # ""]

\* the provider as one fetch step sees it: each fetch function makes its own
\* Gateway calls inside its own try block
Passo(gw, nome) == [gw EXCEPT !.raises = gw.raises \/ gw.falha = nome]

\* variation: the except branch reports a neutral margin
ResultadoErroMargemZero(t) ==
    [v |-> [Ticker |-> t, PrecoAtual |-> 0, PrecoTeto |-> 0, PrecoGraham |-> 0,
            MargemSeguranca |-> 0,
            PagamentoDividendos |-> <<"Erro">>, MelhorMes |-> <<"Erro">>],
     i |-> [k \in {"Ticker"} |-> t],
     i_extras |-> [Ticker |-> t, PayoutRatio |-> 0],
     s |-> [Ticker |-> t, PrecoAtual |-> 0, MediaDPA |-> 0, MedianaDPA |-> 0,
            CagrDPA |-> 0, AnosConsecutivos |-> 0],
     g |-> <<>>,
     a |-> <<>>]

\* the structure returned by the except branch
ResultadoErro(t) ==
    [v |-> [Ticker |-> t, PrecoAtual |-> 0, PrecoTeto |-> 0, PrecoGraham |-> 0,
            MargemSeguranca |-> 0 - 100,
            PagamentoDividendos |-> <<"Erro">>, MelhorMes |-> <<"Erro">>],
     i |-> [k \in {"Ticker"} |-> t],
     i_extras |-> [Ticker |-> t, PayoutRatio |-> 0],
     s |-> [Ticker |-> t, PrecoAtual |-> 0, MediaDPA |-> 0, MedianaDPA |-> 0,
            CagrDPA |-> 0, AnosConsecutivos |-> 0],
     g |-> <<>>,
     a |-> <<>>]

\* variation: the alert is raised from a margin of 0 on
ProcessarTickerAlertaZero(t, gw, anos, taxa_retorno, now) ==
    IF gw.inesperado THEN ResultadoErro(t)
    ELSE
    LET dpa == ObterDadosDpa([raises |-> Passo(gw, "dpa").raises,
                              obs |-> gw.dividends], anos, now)
        dados == Update(ObterDadosFundamentalistas(t, Passo(gw, "fund")),
                        ObterDadosCagr(Passo(gw, "cagr")))
        saz == ObterSazonalidadeEDividendos(Passo(gw, "saz"), anos, now)
        preco_atual == ObterPrecoAtual(Passo(gw, "preco"))
        preco_teto == CalcularPrecoTetoBazin(dpa.media, taxa_retorno)
        preco_graham == CalcularPrecoGraham(Get(dados, "LPA"), Get(dados, "VPA"))
        margem_seguranca == CalcularMargemSeguranca(preco_teto, preco_atual)
    IN  [v |-> [Ticker |-> t, PrecoAtual |-> preco_atual, PrecoTeto |-> preco_teto,
                PrecoGraham |-> preco_graham,
                MargemSeguranca |-> margem_seguranca,
                PagamentoDividendos |-> saz[1], MelhorMes |-> saz[2]],
         i |-> dados,
         i_extras |-> [Ticker |-> t, PayoutRatio |-> CalcularPayoutRatio(dados)],
         s |-> [Ticker |-> t, PrecoAtual |-> preco_atual, MediaDPA |-> dpa.media,
                MedianaDPA |-> dpa.mediana,
                CagrDPA |-> CalcularCagrDpa(dpa.df, anos, now),
                AnosConsecutivos |-> CalcularAnosConsecutivos(dpa.df, now)],
         g |-> dpa.df,
         a |-> IF margem_seguranca >= 0
               THEN <<[Ticker |-> t, PrecoAtual |-> preco_atual,
                       PrecoTeto |-> preco_teto]>>
               ELSE <<>>]

\* the try branch; an alert is <<>> (None) or <<[Ticker, PrecoAtual, PrecoTeto]>>
ProcessarTicker(t, gw, anos, taxa_retorno, now) ==
    IF gw.inesperado THEN ResultadoErro(t)
    ELSE
    LET dpa == ObterDadosDpa([raises |-> Passo(gw, "dpa").raises,
                              obs |-> gw.dividends], anos, now)
        dados == Update(ObterDadosFundamentalistas(t, Passo(gw, "fund")),
                        ObterDadosCagr(Passo(gw, "cagr")))
        saz == ObterSazonalidadeEDividendos(Passo(gw, "saz"), anos, now)
        preco_atual == ObterPrecoAtual(Passo(gw, "preco"))
        preco_teto == CalcularPrecoTetoBazin(dpa.media, taxa_retorno)
        preco_graham == CalcularPrecoGraham(Get(dados, "LPA"), Get(dados, "VPA"))
        margem_seguranca == CalcularMargemSeguranca(preco_teto, preco_atual)
    IN  [v |-> [Ticker |-> t, PrecoAtual |-> preco_atual, PrecoTeto |-> preco_teto,
                PrecoGraham |-> preco_graham,
                MargemSeguranca |-> margem_seguranca,
                PagamentoDividendos |-> saz[1], MelhorMes |-> saz[2]],
         i |-> dados,
         i_extras |-> [Ticker |-> t, PayoutRatio |-> CalcularPayoutRatio(dados)],
         s |-> [Ticker |-> t, PrecoAtual |-> preco_atual, MediaDPA |-> dpa.media,
                MedianaDPA |-> dpa.mediana,
                CagrDPA |-> CalcularCagrDpa(dpa.df, anos, now),
                AnosConsecutivos |-> CalcularAnosConsecutivos(dpa.df, now)],
         g |-> dpa.df,
         a |-> IF margem_seguranca > 0
               THEN <<[Ticker |-> t, PrecoAtual |-> preco_atual,
                       PrecoTeto |-> preco_teto]>>
               ELSE <<>>]

\* ---------------------------------------------------------------------------
\* The provider's data in the runs of the handler
\* ---------------------------------------------------------------------------
\* The first letter of a ticker names what the provider holds for it:
\*   G  a dividend payer with complete fundamentals; the digit sets its price
\*   N  a listed security that never paid a dividend and has few fundamentals
\*   R  every Gateway call raises
\*   X  the task raises out of processar_ticker
\*   E  a step inside the try block of processar_ticker raises
\*   H  a Gateway call of the task does not return
\* and any other symbol is unknown to the provider (empty answers).

Precos == <<500, 1000, 2000, 2500, 4000, 5000, 800, 1250, 400, 250>>

DigitOf(c) == CHOOSE d \in 1..10 : Digits[d] = c

Empty == <<>>       \* an empty dict or table

Desconhecido ==
    [crash |-> FALSE, raises |-> FALSE, inesperado |-> FALSE, hangs |-> FALSE, falha |-> "",
     dividends |-> {},
     info |-> Empty, bs |-> Empty, fin |-> Empty, cf |-> Empty, history |-> {}]

Closes(anos_atras) ==
    {[ano |-> y, mes |-> m, close |-> 1000 + 10 * ((m * 7) % 12) + (y - CurrentYear)]
        : y \in (CurrentYear - anos_atras)..CurrentYear, m \in {1, 4, 7, 10}}

\* sector 1 stands for "Financial Services", 2 for "Energy"
Pagador(d) ==
    [crash |-> FALSE, raises |-> FALSE, inesperado |-> FALSE, hangs |-> FALSE, falha |-> "",
     dividends |-> {[ano |-> y, doy |-> 340, valor |-> 60]
                       : y \in (CurrentYear - 3)..(CurrentYear - 1)},
     info |-> [k \in {"regularMarketPrice", "currentPrice", "trailingPE",
                      "priceToBook", "returnOnEquity", "dividendYield", "sector",
                      "debtToEquity", "enterpriseToEbitda", "trailingEps",
                      "bookValue", "dividendRate"} |->
                CASE k = "regularMarketPrice" -> Precos[d]
                  [] k = "currentPrice" -> Precos[d] + 1
                  [] k = "trailingPE" -> 8
                  [] k = "priceToBook" -> 1
                  [] k = "returnOnEquity" -> 15
                  [] k = "dividendYield" -> 6
                  [] k = "sector" -> IF d % 2 = 1 THEN 1 ELSE 2
                  [] k = "debtToEquity" -> 150
                  [] k = "enterpriseToEbitda" -> 5
                  [] k = "trailingEps" -> 200
                  [] k = "bookValue" -> 1000
                  [] k = "dividendRate" -> 100],
     bs |-> [k \in {"Total Debt", "Stockholders Equity"} |->
                IF k = "Total Debt" THEN 300 ELSE 200],
     fin |-> [k \in {"Total Revenue", "Net Income", "EBIT"} |->
                IF k = "Total Revenue" THEN <<100, 110>>
                ELSE IF k = "Net Income" THEN <<NaN, 40>>
                ELSE <<50, 80>>],
     cf |-> [k \in {"Depreciation"} |-> 0 - 20],
     history |-> Closes(2)]

SemDividendos ==
    [crash |-> FALSE, raises |-> FALSE, inesperado |-> FALSE, hangs |-> FALSE, falha |-> "",
     dividends |-> {},
     info |-> [k \in {"currentPrice"} |-> 1000],
     bs |-> Empty, fin |-> Empty, cf |-> Empty, history |-> Closes(1)]

Gateway(t) ==
    IF Len(t) # 2 \/ t[2] \notin Range(Digits) THEN Desconhecido
    ELSE CASE t[1] = "G" -> Pagador(DigitOf(t[2]))
           [] t[1] = "N" -> SemDividendos
           [] t[1] = "R" -> [Desconhecido EXCEPT !.raises = TRUE]
           [] t[1] = "X" -> [Desconhecido EXCEPT !.crash = TRUE]
           [] t[1] = "E" -> [Pagador(DigitOf(t[2])) EXCEPT !.inesperado = TRUE]
           [] t[1] = "H" -> [Pagador(DigitOf(t[2])) EXCEPT !.hangs = TRUE]
           [] OTHER -> Desconhecido

\* the clock of the runs: 4 November of the current year
BatchNow == DayNum(CurrentYear, 308)

\* ---------------------------------------------------------------------------
\* The "Gerar Relatorio" handler
\* ---------------------------------------------------------------------------
\* variation: only the upper limit is checked
ValidarAnosUpper(anos) == anos <= 20

\* isinstance(anos, (int, float)) and 1 <= int(anos) <= 20
ValidarAnos(anos) == 1 <= anos /\ anos <= 20

\* 0.1 <= taxa <= 100.0, the rate in tenths of a percent
ValidarTaxaRetorno(taxa) == 1 <= taxa /\ taxa <= 1000

\* variation: one worker per ticker
WorkersDinamicosUncapped(tks) == Len(tks)

\* min(len(tickers), MAX_WORKERS_THREAD_POOL)
WorkersDinamicos(tks) == Min(Len(tks), MAX_WORKERS_THREAD_POOL)

MaxTickers == 3     \* longest free-form ticker list of a run
PoolTickers == 6    \* longest list of distinct paying tickers of a run

BatchTokens == { <<"G", "0">>, <<"N", "0">>, <<"R", "0">>, <<"X", "0">>, <<"@">> }

PayerList(k) == [i \in 1..k |-> <<"G", Digits[i]>>]

AnosVals == {0, 1, 20, 21}
TaxaVals == {0, 1, 1000, 1001}

\* The inputs of a run, at the batch-invocation boundary: the sidebar
\* defaults (5 years, 6.0 %) with every ticker list, and every year window
\* and rate of the grid with a few lists.
ListasFixas ==
    { PayerList(PoolTickers),
      <<(<<"G", "0">>), (<<"E", "1">>)>>,
      <<(<<"H", "0">>), (<<"G", "1">>)>> }

BatchInputs ==
    {[ticker_input |-> Join(l), anos |-> 5, taxa |-> 60]
        : l \in SeqsUpTo(BatchTokens, MaxTickers) \cup ListasFixas}
    \cup
    {[ticker_input |-> Join(l), anos |-> a, taxa |-> x]
        : l \in {<<>>, <<(<<"@">>)>>, <<(<<"G", "0">>), (<<"R", "0">>)>>},
          a \in AnosVals, x \in TaxaVals}

BatchIdle ==
    /\ pc = "idle"
    /\ ticker_input = <<>> /\ anos_input = 0 /\ taxa_retorno_input = 0
    /\ tickers = <<>>
    /\ max_workers = 0 /\ threads = 0 /\ submitted = 0
    /\ queue = <<>> /\ running = {} /\ finished = <<>> /\ consumed = <<>>
    /\ data_valuation = <<>> /\ data_indicadores = <<>>
    /\ data_indicadores_extras = <<>> /\ data_estatisticas = <<>>
    /\ data_grafico = <<>> /\ alertas = <<>> /\ erros = <<>>
    /\ st_error = "" 
    /\ max_pl_filter = 0 /\ min_dy_filter = 0 /\ min_ms_filter = 0 - 100
    /\ df_valuation = <<>>
    /\ tem_setor_financeiro = <<>>

\* The button is pressed: validation, sanitizar_tickers and, when nothing
\* stops the run, the creation of the pool.
GerarRelatorio ==
    /\ pc = "idle"
    /\ \E inp \in BatchInputs :
        /\ ticker_input' = inp.ticker_input
        /\ anos_input' = inp.anos
        /\ taxa_retorno_input' = inp.taxa
        /\ IF ~ValidarAnos(inp.anos)
           THEN /\ st_error' = "anos" /\ pc' = "stopped"
                /\ UNCHANGED <<tickers, max_workers>>
           ELSE IF ~ValidarTaxaRetorno(inp.taxa)
           THEN /\ st_error' = "taxa" /\ pc' = "stopped"
                /\ UNCHANGED <<tickers, max_workers>>
           ELSE /\ tickers' = SanitizarTickers(inp.ticker_input)
                /\ IF tickers' = <<>>
                   THEN /\ st_error' = "tickers" /\ pc' = "stopped"
                        /\ UNCHANGED max_workers
                   ELSE /\ max_workers' = WorkersDinamicos(tickers')
                        /\ pc' = "submitting"
                        /\ UNCHANGED st_error
    /\ UNCHANGED <<threads, submitted, queue, running, finished, consumed,
                   data_valuation, data_indicadores, data_indicadores_extras,
                   data_estatisticas, data_grafico, alertas, erros,
                   max_pl_filter, min_dy_filter, min_ms_filter, df_valuation, tem_setor_financeiro>>
    /\ UNCHANGED <<nvars, dvars, cvars, kvars>>

\* executor.submit(processar_ticker, t, ...): the work item is queued and a
\* worker thread is spawned while fewer than max_workers exist
Submit ==
    /\ pc = "submitting"
    /\ submitted < Len(tickers)
    /\ submitted' = submitted + 1
    /\ queue' = Append(queue, submitted + 1)
    /\ threads' = IF threads < max_workers THEN threads + 1 ELSE threads
    /\ pc' = IF submitted + 1 = Len(tickers) THEN "collecting" ELSE pc
    /\ UNCHANGED <<ticker_input, anos_input, taxa_retorno_input, tickers,
                   max_workers, running, finished, consumed, data_valuation,
                   data_indicadores, data_indicadores_extras, data_estatisticas,
                   data_grafico, alertas, erros, st_error, max_pl_filter,
                   min_dy_filter, min_ms_filter, df_valuation, tem_setor_financeiro>>
    /\ UNCHANGED <<nvars, dvars, cvars, kvars>>

\* an idle worker thread takes the oldest queued work item
Start ==
    /\ queue # <<>>
    /\ Cardinality(running) < threads
    /\ running' = running \cup {Head(queue)}
    /\ queue' = Tail(queue)
    /\ UNCHANGED <<pc, ticker_input, anos_input, taxa_retorno_input, tickers,
                   max_workers, threads, submitted, finished, consumed,
                   data_valuation, data_indicadores, data_indicadores_extras,
                   data_estatisticas, data_grafico, alertas, erros, st_error,
                   max_pl_filter, min_dy_filter, min_ms_filter, df_valuation, tem_setor_financeiro>>
    /\ UNCHANGED <<nvars, dvars, cvars, kvars>>

\* the (ticker, anos, taxa) a task of some run is submitted with
Tarefas ==
    UNION { {<<t, inp.anos, inp.taxa>> : t \in Range(SanitizarTickers(inp.ticker_input))}
              : inp \in {x \in BatchInputs : ValidarAnos(x.anos)
                                            /\ ValidarTaxaRetorno(x.taxa)} }

\* processar_ticker is a function of its arguments, the provider's data and
\* the clock: its value for every task, tabulated
Resultados ==
    [task \in Tarefas |->
        ProcessarTicker(task[1], Gateway(task[1]), task[2],
                        TaxaRetornoDecimal(task[3]), BatchNow)]

\* what the future of a task holds once processar_ticker has run
Outcome(t) ==
    IF Gateway(t).crash THEN [crash |-> TRUE, r |-> ResultadoErro(t)]
    ELSE [crash |-> FALSE,
          r |-> Resultados[<<t, anos_input, taxa_retorno_input>>]]

\* a worker finishes processar_ticker for task i: the future is done. The
\* fetch calls are made without a timeout, so the function returns only if
\* each of them does.
Finish(i) ==
    /\ i \in running
    /\ ~Gateway(tickers[i]).hangs
    /\ running' = running \ {i}
    /\ finished' = finished @@ (i :> Outcome(tickers[i]))
    /\ UNCHANGED <<pc, ticker_input, anos_input, taxa_retorno_input, tickers,
                   max_workers, threads, submitted, queue, consumed,
                   data_valuation, data_indicadores, data_indicadores_extras,
                   data_estatisticas, data_grafico, alertas, erros, st_error,
                   max_pl_filter, min_dy_filter, min_ms_filter, df_valuation, tem_setor_financeiro>>
    /\ UNCHANGED <<nvars, dvars, cvars, kvars>>

\* variation: future.result() is not guarded (as in the earlier variant
\* painel5113), so a raising future ends the script inside the loop
CollectSemExcept(i) ==
    /\ pc = "collecting"
    /\ i \in DOMAIN finished
    /\ i \notin Range(consumed)
    /\ IF finished[i].crash
       THEN /\ pc' = "failed"
            /\ UNCHANGED <<consumed, data_valuation, data_indicadores,
                           data_indicadores_extras, data_estatisticas,
                           data_grafico, alertas, erros>>
       ELSE LET resultado == finished[i].r
            IN  /\ consumed' = Append(consumed, i)
                /\ data_valuation' = Append(data_valuation, resultado.v)
                /\ data_indicadores' = Append(data_indicadores, resultado.i)
                /\ data_indicadores_extras' =
                       Append(data_indicadores_extras, resultado.i_extras)
                /\ data_estatisticas' = Append(data_estatisticas, resultado.s)
                /\ data_grafico' = IF resultado.g # <<>>
                                   THEN Append(data_grafico, resultado.g)
                                   ELSE data_grafico
                /\ alertas' = IF resultado.a # <<>>
                              THEN Append(alertas, resultado.a[1])
                              ELSE alertas
                /\ UNCHANGED <<pc, erros>>
    /\ UNCHANGED <<ticker_input, anos_input, taxa_retorno_input, tickers,
                   max_workers, threads, submitted, queue, running, finished,
                   st_error, max_pl_filter, min_dy_filter, min_ms_filter,
                   df_valuation, tem_setor_financeiro>>
    /\ UNCHANGED <<nvars, dvars, cvars, kvars>>

\* One iteration of `for idx, future in enumerate(as_completed(futures), 1)`:
\* a done future is yielded; its result is appended to the collections, or
\* future.result() raises and the except branch only logs.
Collect(i) ==
    /\ pc = "collecting"
    /\ i \in DOMAIN finished
    /\ i \notin Range(consumed)
    /\ consumed' = Append(consumed, i)
    /\ IF finished[i].crash
       THEN /\ erros' = Append(erros, tickers[i])
            /\ UNCHANGED <<data_valuation, data_indicadores,
                           data_indicadores_extras, data_estatisticas,
                           data_grafico, alertas>>
       ELSE LET resultado == finished[i].r
            IN  /\ data_valuation' = Append(data_valuation, resultado.v)
                /\ data_indicadores' = Append(data_indicadores, resultado.i)
                /\ data_indicadores_extras' =
                       Append(data_indicadores_extras, resultado.i_extras)
                /\ data_estatisticas' = Append(data_estatisticas, resultado.s)
                /\ data_grafico' = IF resultado.g # <<>>
                                   THEN Append(data_grafico, resultado.g)
                                   ELSE data_grafico
                /\ alertas' = IF resultado.a # <<>>
                              THEN Append(alertas, resultado.a[1])
                              ELSE alertas
                /\ UNCHANGED erros
    /\ UNCHANGED <<pc, ticker_input, anos_input, taxa_retorno_input, tickers,
                   max_workers, threads, submitted, queue, running, finished,
                   st_error, max_pl_filter, min_dy_filter, min_ms_filter,
                   df_valuation, tem_setor_financeiro>>
    /\ UNCHANGED <<nvars, dvars, cvars, kvars>>

\* the loop has consumed every future: the with block ends, the pool shuts
\* down and its threads exit
Shutdown ==
    /\ pc = "collecting"
    /\ Len(consumed) = Len(tickers)
    /\ threads' = 0
    /\ pc' = "aggregating"
    /\ UNCHANGED <<ticker_input, anos_input, taxa_retorno_input, tickers,
                   max_workers, submitted, queue, running, finished, consumed,
                   data_valuation, data_indicadores, data_indicadores_extras,
                   data_estatisticas, data_grafico, alertas, erros, st_error,
                   max_pl_filter, min_dy_filter, min_ms_filter, df_valuation, tem_setor_financeiro>>
    /\ UNCHANGED <<nvars, dvars, cvars, kvars>>

\* DataFrame.sort_values('Margem Seguranca (%)', ascending=False) with the
\* default kind='quicksort', which is not a stable sort: every arrangement
\* of the rows by non-increasing margin is an outcome.
RECURSIVE SortValuesDesc(_, _)
SortValuesDesc(rows, S) ==
    IF S = {} THEN {<<>>}
    ELSE LET top == {i \in S : \A j \in S :
                        rows[i].MargemSeguranca >= rows[j].MargemSeguranca}
         IN  UNION {{<<rows[i]>> \o rest : rest \in SortValuesDesc(rows, S \ {i})}
                       : i \in top}

\* variation: ascending=False is left out
RECURSIVE SortValuesAsc(_, _)
SortValuesAsc(rows, S) ==
    IF S = {} THEN {<<>>}
    ELSE LET top == {i \in S : \A j \in S :
                        rows[i].MargemSeguranca <= rows[j].MargemSeguranca}
         IN  UNION {{<<rows[i]>> \o rest : rest \in SortValuesAsc(rows, S \ {i})}
                       : i \in top}

SortedValuationAsc(rows) == SortValuesAsc(rows, DOMAIN rows)

SortedValuation(rows) == SortValuesDesc(rows, DOMAIN rows)

\* settings of the sidebar filters: the defaults (all disabled) and each
\* filter alone enabled
FilterSettings ==
    { [pl |-> 0, dy |-> 0, ms |-> 0 - 100], [pl |-> 10, dy |-> 0, ms |-> 0 - 100],
      [pl |-> 0, dy |-> 10, ms |-> 0 - 100], [pl |-> 0, dy |-> 0, ms |-> 0] }

\* the columns of pd.DataFrame(rows): the union of the keys of the dicts
Colunas(rows) == UNION {DOMAIN rows[k] : k \in 1..Len(rows)}

\* any(df['Setor'].str.contains('Financial', case=False, na=False)): of the
\* sectors the provider reports, only "Financial Services" (1) contains the
\* word; a missing cell (None, or NaN for a row without the key) is False
ContemFinancial(rows) ==
    \E k \in 1..Len(rows) : Get(rows[k], "Setor") = 1

\* The display of the results.  The three sidebar filters are read by the
\* script and used nowhere in it; their values are fixed here, where the
\* earlier variants apply them.  df_indicadores['Setor'] raises KeyError
\* when no collected dict has the key: the script ends there.
Aggregate ==
    /\ pc = "aggregating"
    /\ \E f \in FilterSettings :
        /\ max_pl_filter' = f.pl
        /\ min_dy_filter' = f.dy
        /\ min_ms_filter' = f.ms
    /\ IF data_valuation # <<>>
       THEN /\ df_valuation' \in SortedValuation(data_valuation)
            /\ IF "Setor" \in Colunas(data_indicadores)
               THEN /\ tem_setor_financeiro' =
                           <<ContemFinancial(data_indicadores)>>
                    /\ pc' = "done"
               ELSE /\ tem_setor_financeiro' = <<>>
                    /\ pc' = "failed"
       ELSE /\ df_valuation' = <<>>
            /\ tem_setor_financeiro' = <<>>
            /\ pc' = "done"
    /\ UNCHANGED <<ticker_input, anos_input, taxa_retorno_input, tickers,
                   max_workers, threads, submitted, queue, running, finished,
                   consumed, data_valuation, data_indicadores,
                   data_indicadores_extras, data_estatisticas, data_grafico,
                   alertas, erros, st_error>>
    /\ UNCHANGED <<nvars, dvars, cvars, kvars>>

\* ---------------------------------------------------------------------------
\* Specifications
\* ---------------------------------------------------------------------------
NormIdle == n_pc = "off" /\ n_input = <<>> /\ n_output = <<>>

DpaIdle ==
    /\ d_pc = "off" /\ d_hist = Raises /\ d_anos = 1
    /\ d_now = BatchNow /\ d_out = DpaVazio("")

\* the cache of a session that has called no fetch function yet
CacheVazio ==
    /\ k_relogio = 0 /\ k_ticks = 0 /\ k_mundo = 1
    /\ k_cache = <<>> /\ k_last = <<>>

CalcIdle == c_pc = "off" /\ c_fn = "" /\ c_args = <<>> /\ c_out = 0

\* the handler, from the press of the button to the display of the tables
Init == BatchIdle /\ NormIdle /\ DpaIdle /\ CalcIdle /\ CacheVazio

Next ==
    \/ GerarRelatorio
    \/ Submit
    \/ Start
    \/ \E i \in 1..Len(tickers) : Finish(i)
    \/ \E i \in 1..Len(tickers) : Collect(i)
    \/ Shutdown
    \/ Aggregate

Spec == Init /\ [][Next]_vars

\* The handler under the scheduling the runtime gives it: while the script
\* thread or a pool worker has a step it can take (submission, a worker
\* taking or finishing a work item, the collection loop, shutdown, display),
\* one of them is eventually taken.
Fairness ==
    WF_vars(\/ Submit
            \/ Start
            \/ \E i \in 1..Len(tickers) : Finish(i)
            \/ \E i \in 1..Len(tickers) : Collect(i)
            \/ Shutdown
            \/ Aggregate)

SpecLive == Spec /\ Fairness

\* sanitizar_tickers on one raw input
NormInit ==
    /\ n_pc = "input" /\ n_input \in NormInputs /\ n_output = <<>>
    /\ BatchIdle /\ DpaIdle /\ CalcIdle /\ CacheVazio

Sanitizar ==
    /\ n_pc = "input"
    /\ n_output' = SanitizarTickers(n_input)
    /\ n_pc' = "done"
    /\ UNCHANGED <<n_input, dvars, cvars, kvars, bvars>>

NormNext == Sanitizar

SpecNorm == NormInit /\ [][NormNext]_vars

\* obter_dados_dpa on one dividend history, window and clock
DpaInit ==
    /\ d_pc = "input" /\ d_hist \in Histories /\ d_anos \in 1..MaxAnos
    /\ d_now \in Clocks /\ d_out = DpaVazio("")
    /\ BatchIdle /\ NormIdle /\ CalcIdle /\ CacheVazio

ObterDpa ==
    /\ d_pc = "input"
    /\ d_out' = ObterDadosDpa(d_hist, d_anos, d_now)
    /\ d_pc' = "done"
    /\ UNCHANGED <<d_hist, d_anos, d_now, nvars, cvars, kvars, bvars>>

DpaNext == ObterDpa

SpecDpa == DpaInit /\ [][DpaNext]_vars

\* ---------------------------------------------------------------------------
\* The valuation formulas, each applied to one set of arguments
\* ---------------------------------------------------------------------------
CalcYears == 4      \* years before the current one a DPA table may reach

\* annual DPA values, in centavos
DpaVals == {0, 100, 150}

\* the table of consecutive years from lo with the DPA values vals
TabelaDe(lo, vals) == [i \in 1..Len(vals) |-> [Ano |-> lo + i - 1, DPA |-> vals[i]]]

\* DPA tables: a row per year of a range of years that ends at or before
\* the current year
Tabelas ==
    {<<>>} \cup
    UNION { UNION { {TabelaDe(lo, vals) : vals \in [1..n -> DpaVals]}
                      : n \in 1..(CurrentYear - lo + 1) }
              : lo \in (CurrentYear - CalcYears)..CurrentYear }

\* a field of ticker.info: <<>> when the key is missing, <<v>> when it holds v
ComCampo(info, k, campo) ==
    [x \in (DOMAIN info \ {k}) \cup (IF campo = <<>> THEN {} ELSE {k}) |->
        IF x = k THEN campo[1] ELSE info[x]]

\* What the provider may hold for the two debt indicators: each primary
\* field missing, null, zero or positive, and each statement table empty or
\* filled (the balance sheet also with a zero equity).
Endividamentos ==
    {[Pagador(1) EXCEPT
         !.info = ComCampo(ComCampo(Pagador(1).info, "debtToEquity", de),
                           "debtToEbitda", db),
         !.bs = bs, !.fin = fin, !.cf = cf]
        : de \in {<<>>, <<None>>, <<0>>, <<150>>},
          db \in {<<>>, <<None>>, <<0>>, <<2500>>},
          bs \in {Empty, Pagador(1).bs,
                  [Pagador(1).bs EXCEPT !["Stockholders Equity"] = 0]},
          fin \in {Empty, Pagador(1).fin},
          cf \in {Empty, Pagador(1).cf}}
    \cup {[Desconhecido EXCEPT !.raises = TRUE]}

\* What the statement tables may hold when neither primary field is filled:
\* each line item under one of its names or missing, a zero or NaN equity,
\* an EBIT that cancels the depreciation, a NaN depreciation.
Derivacoes ==
    {[Pagador(1) EXCEPT
         !.info = ComCampo(ComCampo(Pagador(1).info, "debtToEquity", pr),
                           "debtToEbitda", pr),
         !.bs = bs, !.fin = fin, !.cf = cf]
        : pr \in {<<>>, <<None>>},
          bs \in {Empty,
                  [Pagador(1).bs EXCEPT !["Stockholders Equity"] = 0],
                  [Pagador(1).bs EXCEPT !["Stockholders Equity"] = NaN],
                  [k \in {"Total Debt"} |-> 300],
                  [k \in {"Common Stock Equity"} |-> 200],
                  [k \in {"Long Term Debt", "Common Stock Equity"} |->
                      IF k = "Long Term Debt" THEN 100 ELSE 200]},
          fin \in {Empty, Pagador(1).fin,
                   [k \in {"Total Revenue"} |-> <<100, 110>>],
                   [k \in {"Operating Income"} |-> <<50, 0 - 20>>]},
          cf \in {Empty, Pagador(1).cf,
                  [k \in {"Free Cash Flow"} |-> 30],
                  [k \in {"Depreciation"} |-> NaN],
                  [k \in {"Reconciled Depreciation"} |-> 20]}}

\* What the provider may hold for the seasonality: every dividend history
\* with two years of monthly closes, and a ticker without price history
Sazonais ==
    { [Desconhecido EXCEPT !.raises = h.raises, !.dividends = h.obs,
                           !.history = Closes(2)] : h \in Histories }
    \cup
    { [Desconhecido EXCEPT !.dividends = Pagador(1).dividends] }

\* the fetch steps of processar_ticker
PassosBusca == {"dpa", "fund", "cagr", "saz", "preco"}

\* a paying ticker priced below or above its ceiling, with no failing step
\* or exactly one
ComFalha ==
    { [Pagador(d) EXCEPT !.falha = f] : d \in {1, 3}, f \in PassosBusca \cup {""} }

\* ceiling prices and market prices, in centavos
PrecosTeto == {0 - 500, 0, 1, 1500, 2000, 3000}
PrecosAtuais == {0 - 1500, 0, 1, 1000, 1500, 2000}

\* ceiling prices m * 2^e for small odd m, from far below one to above the
\* price, and market prices 2^e (powers of two, which divide exactly); zero
\* and a negative price among them
PrecosTetoF64 ==
    {[neg |-> FALSE, bits |-> b, exp |-> e]
        : b \in {<<1>>, <<1, 1>>, <<1, 0, 1>>},
          e \in {0 - 60, 0 - 52, 0 - 51, 0 - 50, 0 - 49, 0 - 48, 0 - 20, 0, 4}}
    \cup {[neg |-> FALSE, bits |-> <<>>, exp |-> 0]}
PrecosAtuaisF64 ==
    {[neg |-> FALSE, bits |-> <<1>>, exp |-> e] : e \in {0, 1, 2, 3, 4, 5}}
    \cup {[neg |-> FALSE, bits |-> <<>>, exp |-> 0],
          [neg |-> TRUE, bits |-> <<1>>, exp |-> 3]}

\* mean DPA values, in centavos, and rate inputs, in tenths of a percent
MediasDpa == {0 - 120, 0, 120, 125, 240}
TaxasInput == {0 - 10, 0, 1, 60, 1000}

\* dividend histories by year: in each of the last CalcYears calendar years,
\* the current one included, no payment or one payment of 60 or 120 (on
\* 6 December, on 1 March in the current year)
Pagamentos == {0, 60, 120}

HistoricosAnuais ==
    { Observed({[ano |-> y, doy |-> IF y = CurrentYear THEN 60 ELSE 340,
                 valor |-> pg[y]] : y \in {z \in DOMAIN pg : pg[z] > 0}})
        : pg \in [(CurrentYear - CalcYears + 1)..CurrentYear -> Pagamentos] }

\* year windows asked for
AnosJanela == {1, 3, 5}

MaxPontos == 3      \* longest annual series of a free-form statement line

\* cells of a statement line: a missing cell, a loss, zero, two gains
Celulas == {NaN, 0 - 50, 0, 50, 100}

\* a statement line in date order: absent (<<>>) or <<series>>
LinhasLivres == {<<>>} \cup {<<sr>> : sr \in SeqsUpTo(Celulas, MaxPontos)}

\* a few fixed lines, the last one longer than the years + 1 points kept
LinhasFixas ==
    { <<>>, <<(<<NaN, 40>>)>>, <<(<<0 - 50, 0 - 20>>)>>, <<(<<50, 80>>)>>,
      <<(<<0, NaN, NaN, NaN, 100, NaN, 200>>)>> }

\* ticker.financials holding the given revenue and net-income lines
FinCom(receita, lucro) ==
    LET chaves == (IF receita # <<>> THEN {"Total Revenue"} ELSE {})
                  \cup (IF lucro # <<>> THEN {"Net Income"} ELSE {})
                  \cup {"EBIT"}
    IN  [k \in chaves |-> IF k = "Total Revenue" THEN receita[1]
                          ELSE IF k = "Net Income" THEN lucro[1]
                          ELSE <<50, 80>>]

Financeiros ==
    { [Desconhecido EXCEPT !.fin = FinCom(r, l)]
        : r \in LinhasLivres, l \in LinhasFixas }
    \cup
    { [Desconhecido EXCEPT !.fin = FinCom(r, l)]
        : r \in LinhasFixas, l \in LinhasLivres }
    \cup
    { Desconhecido, [Desconhecido EXCEPT !.raises = TRUE] }

CalcInputs ==
    {[fn |-> "calcular_anos_consecutivos", args |-> [df_dpa |-> df]]
        : df \in Tabelas}
    \cup
    {[fn |-> "estatisticas", args |-> [hist |-> h, anos |-> a]]
        : h \in HistoricosAnuais, a \in AnosJanela}
    \cup
    {[fn |-> "obter_dados_cagr", args |-> [gw |-> gw]] : gw \in Financeiros}
    \cup
    {[fn |-> "processar_ticker",
      args |-> [gw |-> gw, anos |-> a, taxa_retorno_input |-> 60]]
        : gw \in ComFalha, a \in AnosJanela}
    \cup
    {[fn |-> "obter_sazonalidade_e_dividendos", args |-> [gw |-> gw, anos |-> a]]
        : gw \in Sazonais, a \in AnosJanela}
    \cup
    {[fn |-> "calcular_margem_seguranca",
      args |-> [preco_teto |-> pt, preco_atual |-> pa]]
        : pt \in PrecosTeto, pa \in PrecosAtuais}
    \cup
    {[fn |-> "calcular_margem_seguranca (float64)",
      args |-> [preco_teto |-> pt, preco_atual |-> pa]]
        : pt \in PrecosTetoF64, pa \in PrecosAtuaisF64}
    \cup
    {[fn |-> "calcular_preco_teto_bazin",
      args |-> [media_dpa |-> md, taxa_retorno_input |-> x]]
        : md \in MediasDpa, x \in TaxasInput}
    \cup
    {[fn |-> "obter_dados_fundamentalistas", args |-> [gw |-> gw]]
        : gw \in Endividamentos \cup Derivacoes}

CalcInit ==
    /\ c_pc = "input"
    /\ \E inp \in CalcInputs : c_fn = inp.fn /\ c_args = inp.args
    /\ c_out = 0
    /\ BatchIdle /\ NormIdle /\ DpaIdle /\ CacheVazio

AnosConsecutivos ==
    /\ c_pc = "input" /\ c_fn = "calcular_anos_consecutivos"
    /\ c_out' = CalcularAnosConsecutivos(c_args.df_dpa, BatchNow)
    /\ c_pc' = "done"
    /\ UNCHANGED <<c_fn, c_args, nvars, dvars, kvars, bvars>>

Fundamentalistas ==
    /\ c_pc = "input" /\ c_fn = "obter_dados_fundamentalistas"
    /\ c_out' = [dados |-> ObterDadosFundamentalistas(<<"G", "0">>, c_args.gw),
                 chamadas |-> ChamadasFundamentalistas(c_args.gw)]
    /\ c_pc' = "done"
    /\ UNCHANGED <<c_fn, c_args, nvars, dvars, kvars, bvars>>

MargemSeguranca ==
    /\ c_pc = "input" /\ c_fn = "calcular_margem_seguranca"
    /\ c_out' = CalcularMargemSeguranca(c_args.preco_teto, c_args.preco_atual)
    /\ c_pc' = "done"
    /\ UNCHANGED <<c_fn, c_args, nvars, dvars, kvars, bvars>>

MargemSegurancaF64 ==
    /\ c_pc = "input" /\ c_fn = "calcular_margem_seguranca (float64)"
    /\ c_out' = CalcularMargemSegurancaF64(c_args.preco_teto, c_args.preco_atual)
    /\ c_pc' = "done"
    /\ UNCHANGED <<c_fn, c_args, nvars, dvars, kvars, bvars>>

\* taxa_retorno_decimal = taxa_retorno_input / 100, then
\* calcular_preco_teto_bazin(media_dpa, taxa_retorno), as the handler and
\* processar_ticker chain them
PrecoTetoBazin ==
    /\ c_pc = "input" /\ c_fn = "calcular_preco_teto_bazin"
    /\ c_out' = CalcularPrecoTetoBazin(
                    c_args.media_dpa,
                    TaxaRetornoDecimal(c_args.taxa_retorno_input))
    /\ c_pc' = "done"
    /\ UNCHANGED <<c_fn, c_args, nvars, dvars, kvars, bvars>>

\* the dividend statistics as processar_ticker chains them: obter_dados_dpa,
\* then calcular_cagr_dpa and calcular_anos_consecutivos on its table
Estatisticas ==
    /\ c_pc = "input" /\ c_fn = "estatisticas"
    /\ LET dpa == ObterDadosDpa(c_args.hist, c_args.anos, BatchNow)
       IN  c_out' = [df |-> dpa.df,
                     cagr_dpa |-> CalcularCagrDpa(dpa.df, c_args.anos, BatchNow),
                     anos_consecutivos |->
                         CalcularAnosConsecutivos(dpa.df, BatchNow)]
    /\ c_pc' = "done"
    /\ UNCHANGED <<c_fn, c_args, nvars, dvars, kvars, bvars>>

Cagr ==
    /\ c_pc = "input" /\ c_fn = "obter_dados_cagr"
    /\ c_out' = ObterDadosCagr(c_args.gw)
    /\ c_pc' = "done"
    /\ UNCHANGED <<c_fn, c_args, nvars, dvars, kvars, bvars>>

Sazonalidade ==
    /\ c_pc = "input" /\ c_fn = "obter_sazonalidade_e_dividendos"
    /\ c_out' = ObterSazonalidadeEDividendos(c_args.gw, c_args.anos, BatchNow)
    /\ c_pc' = "done"
    /\ UNCHANGED <<c_fn, c_args, nvars, dvars, kvars, bvars>>

Processar ==
    /\ c_pc = "input" /\ c_fn = "processar_ticker"
    /\ c_out' = ProcessarTicker(<<"G", "0">>, c_args.gw, c_args.anos,
                                TaxaRetornoDecimal(c_args.taxa_retorno_input),
                                BatchNow)
    /\ c_pc' = "done"
    /\ UNCHANGED <<c_fn, c_args, nvars, dvars, kvars, bvars>>

CalcNext ==
    \/ Estatisticas
    \/ Processar
    \/ Sazonalidade
    \/ Cagr
    \/ AnosConsecutivos
    \/ MargemSeguranca
    \/ MargemSegurancaF64
    \/ PrecoTetoBazin
    \/ Fundamentalistas

SpecCalc == CalcInit /\ [][CalcNext]_vars

\* ---------------------------------------------------------------------------
\* @st.cache_data(ttl=3600) on the fetch functions
\* ---------------------------------------------------------------------------
CACHE_TTL == 3600

MaxTicks == 3       \* times the timer advances

\* advances of the timer between two calls, in seconds
Passos == {1, 3599}

\* a key: the decorated function, the ticker and the other arguments
Chaves ==
    { <<"obter_preco_atual", <<"G", "0">>, <<>> >>,
      <<"obter_dados_dpa", <<"G", "0">>, <<1>> >>,
      <<"obter_dados_dpa", <<"G", "0">>, <<5>> >> }

\* what the provider answers in state v of the world: in state 0 every call
\* raises, in state v > 0 it quotes the price Precos[v]
Provedor(v) ==
    IF v = 0 THEN [Pagador(1) EXCEPT !.raises = TRUE] ELSE Pagador(v)

\* the decorated function run on what the provider holds; its except branch
\* turns a raising call into the value it returns
Buscar(chave, v) ==
    IF chave[1] = "obter_preco_atual" THEN ObterPrecoAtual(Provedor(v))
    ELSE ObterDadosDpa([raises |-> Provedor(v).raises,
                        obs |-> Provedor(v).dividends],
                       chave[3][1], BatchNow)

\* variation: the decorator is given no ttl
EntradaValidaSemTtl(entrada, agora) == TRUE

\* an entry expires ttl seconds after it was stored
EntradaValida(entrada, agora) == agora < entrada.criada + CACHE_TTL

\* the timer advances
Tick ==
    /\ k_ticks < MaxTicks
    /\ \E d \in Passos : k_relogio' = k_relogio + d
    /\ k_ticks' = k_ticks + 1
    /\ UNCHANGED <<k_mundo, k_cache, k_last, nvars, dvars, cvars, bvars>>

\* the provider goes down, then comes back with new data
MudaMundo ==
    /\ k_mundo \in {0, 1}
    /\ k_mundo' = IF k_mundo = 1 THEN 0 ELSE 2
    /\ UNCHANGED <<k_relogio, k_ticks, k_cache, k_last, nvars, dvars, cvars, bvars>>

\* variation: the value of a call that failed is returned but not stored
ChamarSemGuardarFalha(chave) ==
    LET antes == IF chave \in DOMAIN k_cache THEN <<k_cache[chave]>> ELSE <<>>
        hit == antes # <<>> /\ EntradaValida(antes[1], k_relogio)
        valor == IF hit THEN antes[1].valor ELSE Buscar(chave, k_mundo)
    IN  /\ k_cache' = IF hit \/ k_mundo = 0 THEN k_cache
                      ELSE [c \in DOMAIN k_cache \cup {chave} |->
                              IF c = chave
                              THEN [valor |-> valor, criada |-> k_relogio]
                              ELSE k_cache[c]]
        /\ k_last' = <<[chave |-> chave, em |-> k_relogio, mundo |-> k_mundo,
                        antes |-> antes, valor |-> valor, chamou |-> ~hit]>>
        /\ UNCHANGED <<k_relogio, k_ticks, k_mundo, nvars, dvars, cvars, bvars>>

\* a call of a decorated function: the stored value while the entry is
\* valid, otherwise the function runs (it calls the Gateway) and its value
\* is stored
Chamar(chave) ==
    LET antes == IF chave \in DOMAIN k_cache THEN <<k_cache[chave]>> ELSE <<>>
        hit == antes # <<>> /\ EntradaValida(antes[1], k_relogio)
        valor == IF hit THEN antes[1].valor ELSE Buscar(chave, k_mundo)
    IN  /\ k_cache' = IF hit THEN k_cache
                      ELSE [c \in DOMAIN k_cache \cup {chave} |->
                              IF c = chave
                              THEN [valor |-> valor, criada |-> k_relogio]
                              ELSE k_cache[c]]
        /\ k_last' = <<[chave |-> chave, em |-> k_relogio, mundo |-> k_mundo,
                        antes |-> antes, valor |-> valor, chamou |-> ~hit]>>
        /\ UNCHANGED <<k_relogio, k_ticks, k_mundo, nvars, dvars, cvars, bvars>>

CacheNext ==
    \/ Tick
    \/ MudaMundo
    \/ \E chave \in Chaves : Chamar(chave)

CacheInit == CacheVazio /\ BatchIdle /\ NormIdle /\ DpaIdle /\ CalcIdle

SpecCache == CacheInit /\ [][CacheNext]_vars

\* ---------------------------------------------------------------------------
\* Properties of sanitizar_tickers (SpecNorm)
\* ---------------------------------------------------------------------------
\* a token as the normalizer reads it: trimmed and uppercased
Normalizado(piece) == Upper(Strip(piece))

\* the token is non-empty and made of A-Z, 0-9, dot and hyphen only
CasaPadrao(tok) ==
    /\ tok # <<>>
    /\ \A i \in 1..Len(tok) :
          \/ tok[i] \in Range(Alfabeto)
          \/ tok[i] \in Range(Digits)
          \/ tok[i] \in {".", "-"}

\* the comma-separated pieces of the input, each trimmed and uppercased
Tokens(input) ==
    LET pieces == Split(input)
    IN  [i \in 1..Len(pieces) |-> Normalizado(pieces[i])]

\* the valid tokens of toks, in their order
RECURSIVE Validos(_)
Validos(toks) ==
    IF toks = <<>> THEN <<>>
    ELSE (IF CasaPadrao(Head(toks)) THEN <<Head(toks)>> ELSE <<>>)
             \o Validos(Tail(toks))

NoDuplicates(s) == \A i, j \in 1..Len(s) : s[i] = s[j] => i = j

\* C4: the normalizer's output holds no identifier twice and at most
\* MAX_TICKERS_PERMITIDOS (20) entries.
C4_Counterexample_NoDupBounded ==
    n_pc = "done" =>
        /\ NoDuplicates(n_output)
        /\ Len(n_output) <= MAX_TICKERS_PERMITIDOS

\* C5: the normalizer's output is the first (at most 20) elements, in input
\* order, of the trimmed, uppercased, non-empty comma-separated tokens that
\* match ^[A-Z0-9.-]+$ : no token failing the pattern is in the output and no
\* valid token inside the limit is dropped.
C5_FirstValidTokens ==
    n_pc = "done" =>
        LET toks == Tokens(n_input)
            validos == Validos(toks)
        IN  /\ Len(n_output) = Min(MAX_TICKERS_PERMITIDOS, Len(validos))
            /\ \A k \in 1..Len(n_output) : n_output[k] = validos[k]
            /\ \A k \in 1..Len(n_output) : CasaPadrao(n_output[k])
            /\ \A k \in 1..Len(validos) :
                  k <= MAX_TICKERS_PERMITIDOS => n_output[k] = validos[k]

\* C5 witness: more valid tokens than the limit, an invalid non-empty token
\* among the pieces, and the output cut at the limit
C5_Witness_Truncated ==
    /\ n_pc = "done"
    /\ Len(Validos(Tokens(n_input))) > MAX_TICKERS_PERMITIDOS
    /\ \E i \in 1..Len(Tokens(n_input)) :
          /\ Tokens(n_input)[i] # <<>>
          /\ ~CasaPadrao(Tokens(n_input)[i])
    /\ Len(n_output) = MAX_TICKERS_PERMITIDOS

\* ---------------------------------------------------------------------------
\* Properties of obter_dados_dpa (SpecDpa)
\* ---------------------------------------------------------------------------
\* the N complete calendar years before the current one
AnosCompletos(n, now) == (YearNow(now) - n)..(YearNow(now) - 1)

\* C10: for a dividend history with a payment in each of the N complete
\* calendar years before the current one, obter_dados_dpa(anos=N) returns
\* exactly N annual records, those of the N most recent complete years, and
\* the mean and the median are computed over exactly those records.
C10_Counterexample_ExactlyN ==
    (/\ d_pc = "done"
     /\ ~d_hist.raises
     /\ \A y \in AnosCompletos(d_anos, d_now) : \E o \in d_hist.obs : o.ano = y)
    =>
        /\ Len(d_out.df) = d_anos
        /\ {d_out.df[i].Ano : i \in 1..Len(d_out.df)} =
               AnosCompletos(d_anos, d_now)
        /\ d_out.media = Mean(Col(d_out.df, "DPA"))
        /\ d_out.mediana = Median(Col(d_out.df, "DPA"))

\* C20: for every dividend history and every year window, the record set
\* returned by obter_dados_dpa has at most anos entries and no entry for the
\* current calendar year, and the returned mean and median are taken over
\* exactly the returned entries (both 0 when the set is empty or the history
\* has no dividends).
C20_DpaRecordSet ==
    d_pc = "done" =>
        /\ Len(d_out.df) <= d_anos
        /\ \A i \in 1..Len(d_out.df) : d_out.df[i].Ano # YearNow(d_now)
        /\ d_out.df # <<>> =>
               /\ d_out.media = Mean(Col(d_out.df, "DPA"))
               /\ d_out.mediana = Median(Col(d_out.df, "DPA"))
        /\ (d_out.df = <<>> \/ d_hist.obs = {}) =>
               d_out.media = 0 /\ d_out.mediana = 0

\* C20 witness: a history with a payment in the current year and as many
\* complete years as asked for, of different annual totals
C20_Witness_FullWindow ==
    /\ d_pc = "done"
    /\ \E o \in d_hist.obs : o.ano = YearNow(d_now) /\ ObsDay(o) <= d_now
    /\ Len(d_out.df) = d_anos
    /\ d_anos > 1
    /\ d_out.df[1].DPA # d_out.df[2].DPA

\* ---------------------------------------------------------------------------
\* Properties of the batch run (Spec)
\* ---------------------------------------------------------------------------
\* the run is past the collection loop
Collected == pc \in {"aggregating", "done", "failed"}

\* no future of the run raised when its result was taken
NoCrash == \A i \in DOMAIN finished : ~finished[i].crash

\* positions of the valuation collection that hold a result for ticker t
EntriesOf(t) == {k \in 1..Len(data_valuation) : data_valuation[k].Ticker = t}

\* tasks whose every Gateway call raises
RaisingTasks == {i \in 1..Len(tickers) : Gateway(tickers[i]).raises}

\* what processar_ticker returns for t when it is the only ticker of a run
Alone(t) ==
    ProcessarTicker(t, Gateway(t), anos_input,
                    TaxaRetornoDecimal(taxa_retorno_input), BatchNow)

\* C1: after a batch whose tasks all returned, whatever the completion order
\* and the fetch failures, the valuation collection holds exactly one entry
\* for every identifier the normalizer accepted: none missing, none twice.
C1_Counterexample_ExactlyOnce ==
    (Collected /\ NoCrash) =>
        \A t \in Range(tickers) : Cardinality(EntriesOf(t)) = 1

\* C2: when every Gateway call of one identifier raises and the calls of all
\* the others succeed, the batch returns exactly one result per accepted
\* identifier; the result of the failing identifier is fully defaulted
\* (price 0, ceiling 0, fair value 0, margin -100, payout 0, mean and median
\* 0, CAGR 0, consecutive years 0, no alert) and the result of every other
\* identifier equals the one it gets when processed alone.
C2_Counterexample_FailureIsolated ==
    (Collected /\ NoCrash /\ RaisingTasks # {}) =>
        /\ \A t \in Range(tickers) : Cardinality(EntriesOf(t)) = 1
        /\ \A k \in 1..Len(consumed) :
              LET i == consumed[k]
                  t == tickers[i]
              IN  /\ data_valuation[k].Ticker = t
                  /\ IF i \in RaisingTasks
                     THEN /\ data_valuation[k].PrecoAtual = 0
                          /\ data_valuation[k].PrecoTeto = 0
                          /\ data_valuation[k].PrecoGraham = 0
                          /\ data_valuation[k].MargemSeguranca = 0 - 100
                          /\ data_indicadores_extras[k].PayoutRatio = 0
                          /\ data_estatisticas[k].MediaDPA = 0
                          /\ data_estatisticas[k].MedianaDPA = 0
                          /\ data_estatisticas[k].CagrDPA = 0
                          /\ data_estatisticas[k].AnosConsecutivos = 0
                          /\ \A j \in 1..Len(alertas) : alertas[j].Ticker # t
                     ELSE /\ data_valuation[k] = Alone(t).v
                          /\ data_indicadores[k] = Alone(t).i
                          /\ data_indicadores_extras[k] = Alone(t).i_extras
                          /\ data_estatisticas[k] = Alone(t).s

\* C3: when the future of a task raises as its result is taken, the defaulted
\* result of that identifier is recorded, every other task still runs to
\* completion and is collected, and the pool is not terminated.
C3_Counterexample_CrashDefaulted ==
    Collected =>
        /\ DOMAIN finished = 1..Len(tickers)
        /\ \A i \in 1..Len(tickers) :
              IF finished[i].crash
              THEN \E k \in 1..Len(data_valuation) :
                      data_valuation[k] = ResultadoErro(tickers[i]).v
              ELSE \E k \in 1..Len(data_valuation) :
                      data_valuation[k] = finished[i].r.v

\* the configuration of a run cannot be analysed
EntradaInvalida ==
    \/ Validos(Tokens(ticker_input)) = <<>>
    \/ anos_input < 1 \/ anos_input > 20
    \/ taxa_retorno_input < 1 \/ taxa_retorno_input > 1000

\* C6: the pool is never created and no task is submitted when the
\* normalized identifier set is empty, the year window is outside 1..20 or
\* the target rate is outside 0.1 %..100 %: the run stops with an error.  In
\* every other case the pool is created and the run goes on.
C6_PoolOnlyOnValidInput ==
    pc # "idle" =>
        IF EntradaInvalida
        THEN /\ pc = "stopped" /\ st_error # ""
             /\ max_workers = 0 /\ threads = 0 /\ submitted = 0
             /\ queue = <<>> /\ running = {} /\ finished = <<>>
        ELSE /\ pc # "stopped" /\ st_error = ""
             /\ max_workers >= 1

\* C6 witness: identifiers and year window are valid, the rate is not, and
\* the run has stopped
C6_Witness_StoppedOnRate ==
    /\ pc = "stopped"
    /\ Validos(Tokens(ticker_input)) # <<>>
    /\ anos_input >= 1 /\ anos_input <= 20
    /\ taxa_retorno_input > 1000

\* C7: the pool is sized min(5, n) for n accepted identifiers, at no time do
\* more pipeline instances execute than that size, and all n identifiers are
\* submitted and run.
C7_PoolSizeBound ==
    max_workers > 0 =>
        /\ max_workers = Min(MAX_WORKERS_THREAD_POOL, Len(tickers))
        /\ threads <= Min(MAX_WORKERS_THREAD_POOL, Len(tickers))
        /\ Cardinality(running) <= Min(MAX_WORKERS_THREAD_POOL, Len(tickers))
        /\ pc \in {"collecting", "aggregating", "done", "failed"} =>
              submitted = Len(tickers)
        /\ Collected => DOMAIN finished = 1..Len(tickers)

\* C7 witness: more identifiers than the cap, every worker busy, one task
\* still waiting in the queue
C7_Witness_PoolSaturated ==
    /\ Len(tickers) > MAX_WORKERS_THREAD_POOL
    /\ submitted = Len(tickers)
    /\ Cardinality(running) = MAX_WORKERS_THREAD_POOL
    /\ queue # <<>>

\* the rows by margin descending, rows of equal margin in their given order
RECURSIVE StableDescFrom(_, _)
StableDescFrom(rows, S) ==
    IF S = {} THEN <<>>
    ELSE LET i == CHOOSE x \in S : \A j \in S :
                     \/ rows[x].MargemSeguranca > rows[j].MargemSeguranca
                     \/ /\ rows[x].MargemSeguranca = rows[j].MargemSeguranca
                        /\ x <= j
         IN  <<rows[i]>> \o StableDescFrom(rows, S \ {i})

\* C8: the final valuation table is ordered by margin of safety descending,
\* and two results of equal margin keep the relative order in which their
\* tasks completed, for every completion order.
C8_Counterexample_StableOrder ==
    pc = "done" =>
        df_valuation = StableDescFrom(data_valuation, DOMAIN data_valuation)

\* the result at position k of the collections passes the enabled filters;
\* P/L and DY are those of the same position of data_indicadores, DY in
\* percent
PassaFiltros(k) ==
    LET pl == Get(data_indicadores[k], "P/L")
        dy == Get(data_indicadores[k], "DY")
    IN  /\ max_pl_filter > 0 => (pl # None /\ pl <= max_pl_filter)
        /\ min_dy_filter > 0 => (dy # None /\ dy >= min_dy_filter)
        /\ data_valuation[k].MargemSeguranca >= min_ms_filter

\* C9: a result survives aggregation iff it passes every enabled threshold
\* filter (P/E <= maximum, dividend yield >= minimum, margin >= minimum); a
\* maximum P/E or minimum yield of 0 excludes nothing; the enabled filters
\* are AND-combined.
C9_Counterexample_FiltersApplied ==
    (pc = "done" /\ NoCrash) =>
        \A k \in 1..Len(data_valuation) :
            (\E j \in 1..Len(df_valuation) : df_valuation[j] = data_valuation[k])
                <=> PassaFiltros(k)

\* ---------------------------------------------------------------------------
\* Properties of the valuation formulas (SpecCalc)
\* ---------------------------------------------------------------------------
\* the records of complete calendar years of a DPA table
Completos(df) == {r \in Range(df) : r.Ano < CurrentYear}

\* the records of the unbroken run of paying years that ends at the most
\* recent complete year
Sequencia(df) ==
    {r \in Completos(df) :
        \A q \in Completos(df) : q.Ano >= r.Ano => q.DPA > 0}

\* C11: the count of consecutive dividend-paying years walks the annual
\* records from the most recent year backward, counts the years with DPA > 0
\* and stops at the first year with DPA = 0: a paying year further back than
\* the first zero year never adds to the count (2020:1, 2021:1, 2022:0,
\* 2023:1 gives 1).
C11_StreakStopsAtFirstZero ==
    (c_pc = "done" /\ c_fn = "calcular_anos_consecutivos") =>
        c_out = Cardinality(Sequencia(c_args.df_dpa))

\* C11 witness: paying, paying, not paying, paying up to the last complete
\* year, counted as 1
C11_Witness_GapBreaksStreak ==
    /\ c_pc = "done" /\ c_fn = "calcular_anos_consecutivos"
    /\ c_args.df_dpa = TabelaDe(CurrentYear - 4, <<100, 100, 0, 100>>)
    /\ c_out = 1

\* the statement-table accesses made for the fallback of an indicator
ChamadasDe(chamadas, indicador) ==
    {i \in 1..Len(chamadas) : chamadas[i].passo = indicador}

Alias(tabela, nomes) == FirstKey(nomes, tabela)

NomesDivida == <<"Total Debt", "Long Term Debt", "Short Long Term Debt">>
NomesPl == <<"Stockholders Equity", "Total Stockholder Equity",
             "Common Stock Equity">>
NomesEbit == <<"EBIT", "Operating Income">>
NomesDa == <<"Depreciation And Amortization", "Depreciation",
             "Reconciled Depreciation">>

Modulo(x) == IF x < 0 THEN 0 - x ELSE x

\* EBIT + |D&A| of the most recent year is zero
EbitdaZero(gw) ==
    LET e == gw.fin[Alias(gw.fin, NomesEbit)]
        d == gw.cf[Alias(gw.cf, NomesDa)]
    IN  /\ e[Len(e)] # NaN /\ d # NaN
        /\ e[Len(e)] + Modulo(d) = 0

C13_MarginFormula ==
    (c_pc = "done" /\ c_fn = "calcular_margem_seguranca") =>
        LET teto == c_args.preco_teto
            preco == c_args.preco_atual
        IN  IF teto > 0 /\ preco > 0
            THEN /\ (c_out + 100) * preco <= teto * 100
                 /\ teto * 100 < (c_out + 101) * preco
            ELSE c_out = 0 - 100

\* C13 witness: ceiling 20.00 and price 15.00 give 33 %
C13_Witness_Example ==
    /\ c_pc = "done" /\ c_fn = "calcular_margem_seguranca"
    /\ c_args.preco_teto = 2000 /\ c_args.preco_atual = 1500
    /\ c_out = 33

\* C14: calcular_preco_teto_bazin returns the mean DPA divided by the target
\* rate when both are strictly positive and 0 otherwise; the rate it is
\* given is the percentage input divided by 100, so that a mean of 1.20 at
\* 6 % gives 20.00.  With the input x in tenths of a percent the quotient is
\* media * 1000 / x, rounded down to the centavo.
C14_BazinCeiling ==
    (c_pc = "done" /\ c_fn = "calcular_preco_teto_bazin") =>
        LET media == c_args.media_dpa
            x == c_args.taxa_retorno_input
        IN  IF media > 0 /\ x > 0
            THEN /\ c_out * x <= media * 1000
                 /\ media * 1000 < (c_out + 1) * x
            ELSE c_out = 0

\* C14 witness: mean 1.20 at 6.0 % gives 20.00
C14_Witness_Example ==
    /\ c_pc = "done" /\ c_fn = "calcular_preco_teto_bazin"
    /\ c_args.media_dpa = 120 /\ c_args.taxa_retorno_input = 60
    /\ c_out = 2000

\* the positions of the strictly positive values of a DPA table
Positivos(df) == {i \in 1..Len(df) : df[i].DPA > 0}

\* C18: the DPA CAGR is computed between the first and the last strictly
\* positive annual DPA values of the trimmed window, and is 0 when the window
\* holds fewer than two positive values; a zero at the start or the end of
\* the window does not by itself force the result to 0.
C18_Counterexample_CagrBetweenPositives ==
    (c_pc = "done" /\ c_fn = "estatisticas") =>
        LET df == c_out.df
            pos == Positivos(df)
            lo == CHOOSE i \in pos : \A j \in pos : i <= j
            hi == CHOOSE i \in pos : \A j \in pos : i >= j
        IN  IF Cardinality(pos) < 2 THEN c_out.cagr_dpa = 0
            ELSE c_out.cagr_dpa = GrowthPct(df[lo].DPA, df[hi].DPA, hi - lo)

\* C19: the streak of dividend-paying years is counted backward starting at
\* the most recent complete calendar year: when that year has no dividend
\* (DPA 0, or no record because the last observation is older) the count is
\* 0 whatever the earlier years paid.
C19_Counterexample_StreakFromLastCompleteYear ==
    (/\ c_pc = "done" /\ c_fn = "estatisticas"
     /\ \A o \in c_args.hist.obs : o.ano # CurrentYear - 1)
    => c_out.anos_consecutivos = 0

\* the non-missing points of a statement line that the CAGR is taken over
Pontos(fin, linha) ==
    IF linha \notin DOMAIN fin THEN <<>>
    ELSE SelectSeq(LastN(fin[linha], 6), LAMBDA v : v # NaN)

\* a CAGR as the claim C21 decides it
CagrDeterminado(pts, valor) ==
    IF Len(pts) < 2 \/ pts[1] <= 0 THEN valor = None
    ELSE pts[Len(pts)] >= 0 =>
             valor = GrowthPct(pts[1], pts[Len(pts)], Len(pts) - 1)

\* C21: revenue CAGR and net-income CAGR are each None whenever fewer than
\* two non-missing annual points are available or the starting value is not
\* strictly positive; otherwise each is (final/initial)^(1/periods) - 1 with
\* periods = number of points - 1; the two are decided independently.
C21_Counterexample_CagrUndeterminable ==
    (c_pc = "done" /\ c_fn = "obter_dados_cagr") =>
        /\ CagrDeterminado(Pontos(c_args.gw.fin, "Total Revenue"),
                           Get(c_out, "CAGR Receita 5a"))
        /\ CagrDeterminado(Pontos(c_args.gw.fin, "Net Income"),
                           Get(c_out, "CAGR Lucro 5a"))

\* the dividend observations of the requested window
NaJanela(gw, anos) ==
    {o \in gw.dividends : ObsDay(o) > BatchNow - anos * 365
                         /\ ObsDay(o) <= BatchNow}

\* the months paid in at least 30 % of the years of the window
MesesRecorrentes(gw, anos) ==
    LET obs == NaJanela(gw, anos)
        anos_de(m) == {o.ano : o \in {x \in obs : MonthOf(x.ano, x.doy) = m}}
    IN  {m \in 1..12 : anos_de(m) # {}
                       /\ Cardinality(anos_de(m)) * 10 >= anos * 3}

\* C23: a calendar month is listed as a payment month iff dividends were
\* paid in that month in at least 30 % of the observed years of the
\* requested window; the listed months are in ascending calendar order; with
\* no dividends or no qualifying month the field is the "no dividends"
\* marker, never an empty string.
C23_Counterexample_PaymentMonths ==
    (/\ c_pc = "done" /\ c_fn = "obter_sazonalidade_e_dividendos"
     /\ ~c_args.gw.raises
     /\ HistoryPeriod(c_args.gw.history, c_args.anos, BatchNow) # {})
    =>
        LET meses == MesesRecorrentes(c_args.gw, c_args.anos)
        IN  c_out[1] = IF meses = {} THEN <<"Sem Div.">>
                       ELSE MonthNamesOf(meses)

\* the result of the same call in a run where no fetch step fails
SemFalha ==
    ProcessarTicker(<<"G", "0">>, [c_args.gw EXCEPT !.falha = ""], c_args.anos,
                    TaxaRetornoDecimal(c_args.taxa_retorno_input), BatchNow)

ChavesCagr == {"CAGR Receita 5a", "CAGR Lucro 5a"}

\* two results agree on the fields of a section
Iguais(a, b, campos) == \A k \in campos : a[k] = b[k]

\* C25: the pipeline steps degrade independently: when exactly one fetch step
\* fails for an identifier, only the sub-results that depend on it take
\* their neutral values (a failed price fetch gives price 0 and margin -100)
\* while the sub-results of the other steps (mean and median DPA, ceiling,
\* fair price, fundamentals, seasonality) are those of a run where no step
\* failed.
C25_StepsDegradeIndependently ==
    (c_pc = "done" /\ c_fn = "processar_ticker") =>
        LET r == c_out
            ok == SemFalha
            f == c_args.gw.falha
        IN  /\ f = "preco" =>
                  /\ r.v.PrecoAtual = 0 /\ r.s.PrecoAtual = 0
                  /\ r.v.MargemSeguranca = 0 - 100 /\ r.a = <<>>
                  /\ Iguais(r.v, ok.v, {"PrecoTeto", "PrecoGraham",
                                        "PagamentoDividendos", "MelhorMes"})
                  /\ Iguais(r.s, ok.s, {"MediaDPA", "MedianaDPA", "CagrDPA",
                                        "AnosConsecutivos"})
                  /\ r.i = ok.i /\ r.i_extras = ok.i_extras /\ r.g = ok.g
            /\ f = "dpa" =>
                  /\ r.s.MediaDPA = 0 /\ r.s.MedianaDPA = 0 /\ r.g = <<>>
                  /\ r.v.PrecoTeto = 0 /\ r.v.MargemSeguranca = 0 - 100
                  /\ r.s.CagrDPA = 0 /\ r.s.AnosConsecutivos = 0
                  /\ r.a = <<>>
                  /\ Iguais(r.v, ok.v, {"PrecoAtual", "PrecoGraham",
                                        "PagamentoDividendos", "MelhorMes"})
                  /\ r.s.PrecoAtual = ok.s.PrecoAtual
                  /\ r.i = ok.i /\ r.i_extras = ok.i_extras
            /\ f = "fund" =>
                  /\ DOMAIN r.i = {"Ticker"} \cup ChavesCagr
                  /\ Iguais(r.i, ok.i, {"Ticker"} \cup ChavesCagr)
                  /\ r.v.PrecoGraham = 0 /\ r.i_extras.PayoutRatio = 0
                  /\ Iguais(r.v, ok.v, {"PrecoAtual", "PrecoTeto",
                                        "MargemSeguranca",
                                        "PagamentoDividendos", "MelhorMes"})
                  /\ r.s = ok.s /\ r.g = ok.g /\ r.a = ok.a
            /\ f = "cagr" =>
                  /\ DOMAIN r.i = DOMAIN ok.i \ ChavesCagr
                  /\ Iguais(r.i, ok.i, DOMAIN r.i)
                  /\ r.v = ok.v /\ r.i_extras = ok.i_extras
                  /\ r.s = ok.s /\ r.g = ok.g /\ r.a = ok.a
            /\ f = "saz" =>
                  /\ r.v.PagamentoDividendos = <<"Erro">>
                  /\ r.v.MelhorMes = <<"Erro">>
                  /\ Iguais(r.v, ok.v, {"PrecoAtual", "PrecoTeto",
                                        "PrecoGraham", "MargemSeguranca"})
                  /\ r.i = ok.i /\ r.i_extras = ok.i_extras
                  /\ r.s = ok.s /\ r.g = ok.g /\ r.a = ok.a

\* C25 witness: the price fetch alone fails for a ticker that pays
\* dividends: price 0 and margin -100 next to a positive ceiling, a positive
\* fair price and the full fundamentals
C25_Witness_PriceAloneFails ==
    /\ c_pc = "done" /\ c_fn = "processar_ticker"
    /\ c_args.gw.falha = "preco"
    /\ c_out.v.PrecoAtual = 0 /\ c_out.v.MargemSeguranca = 0 - 100
    /\ c_out.v.PrecoTeto > 0 /\ c_out.v.PrecoGraham > 0
    /\ c_out.s.MediaDPA > 0
    /\ c_out.i["P/L"] = 8
    /\ SemFalha.a # <<>>

\* ---------------------------------------------------------------------------
\* Properties of the cache (SpecCache)
\* ---------------------------------------------------------------------------
\* C15: a call of a cached fetch operation with the same (operation,
\* identifier, parameters) key made before the entry's expiry, 3600 s after
\* its creation, returns the stored value without calling the Gateway; the
\* first call after the expiry calls the Gateway again and replaces the
\* entry.
C15_CacheTtl ==
    k_last # <<>> =>
        LET c == k_last[1]
        IN  /\ c.antes # <<>> /\ c.em < c.antes[1].criada + 3600 =>
                  /\ ~c.chamou
                  /\ c.valor = c.antes[1].valor
                  /\ k_cache[c.chave] = c.antes[1]
            /\ c.antes # <<>> /\ c.em >= c.antes[1].criada + 3600 =>
                  /\ c.chamou
                  /\ k_cache[c.chave] = [valor |-> c.valor, criada |-> c.em]
            /\ c.antes = <<>> => c.chamou

\* C15 witness: a call 3600 s after the entry was stored, after the provider
\* changed its data: the Gateway is called and the new value replaces the old
C15_Witness_Recomputed ==
    /\ k_last # <<>>
    /\ k_last[1].antes # <<>>
    /\ k_last[1].em = k_last[1].antes[1].criada + 3600
    /\ k_last[1].chamou
    /\ k_last[1].valor # k_last[1].antes[1].valor

\* ---------------------------------------------------------------------------
\* Properties of the tasks of the pool (Spec)
\* ---------------------------------------------------------------------------
\* C16: a Gateway call that does not return is bounded by a per-call timeout
\* supplied by the pipeline, after which the step degrades to its empty or
\* zero outcome and the worker goes on: a worker is never occupied forever by
\* one identifier. Stated on single states: while a worker is occupied the
\* handler always has a step it can take.
C16_Counterexample_WorkerReleased ==
    running # {} => ENABLED Next

\* the tasks in which a step of the try block raises
Inesperadas == {i \in 1..Len(tickers) : Gateway(tickers[i]).inesperado}

\* C17: an unexpected error raised at any step inside processar_ticker is not
\* propagated: the function returns the fully defaulted result with the
\* identifier in every section (price 0, ceiling 0, fair price 0, margin
\* -100, payout 0, mean and median 0, DPA CAGR 0, consecutive years 0, empty
\* dividend series, no alert).
C17_UnexpectedErrorDefaulted ==
    \A i \in Inesperadas \cap DOMAIN finished :
        LET f == finished[i]
            t == tickers[i]
        IN  /\ ~f.crash
            /\ f.r.v.Ticker = t /\ f.r.i["Ticker"] = t
            /\ f.r.i_extras.Ticker = t /\ f.r.s.Ticker = t
            /\ f.r.v.PrecoAtual = 0 /\ f.r.s.PrecoAtual = 0
            /\ f.r.v.PrecoTeto = 0
            /\ f.r.v.PrecoGraham = 0
            /\ f.r.v.MargemSeguranca = 0 - 100
            /\ f.r.i_extras.PayoutRatio = 0
            /\ f.r.s.MediaDPA = 0 /\ f.r.s.MedianaDPA = 0
            /\ f.r.s.CagrDPA = 0
            /\ f.r.s.AnosConsecutivos = 0
            /\ f.r.g = <<>>
            /\ f.r.a = <<>>

\* C17 witness: the task of a ticker whose processing raises has finished
\* next to the task of a paying ticker, and both results were collected
C17_Witness_DefaultedCollected ==
    /\ pc = "done"
    /\ Inesperadas # {}
    /\ Inesperadas \subseteq DOMAIN finished
    /\ Len(data_valuation) = Len(tickers)
    /\ \E k \in 1..Len(data_valuation) : data_valuation[k].MargemSeguranca > 0

\* the results with a positive margin, in the order they were collected
Oportunidades ==
    SelectSeq(data_valuation, LAMBDA v : v.MargemSeguranca > 0)

\* C24: a pipeline result carries an alert iff its margin of safety is > 0,
\* and after the batch the alert list holds exactly one alert for each
\* result with margin > 0 and none for a result with margin <= 0, the
\* defaulted results included.
C24_AlertIffPositiveMargin ==
    /\ \A i \in DOMAIN finished :
           ~finished[i].crash =>
               (finished[i].r.a # <<>> <=> finished[i].r.v.MargemSeguranca > 0)
    /\ Len(alertas) = Len(Oportunidades)
    /\ \A k \in 1..Len(alertas) :
           /\ alertas[k].Ticker = Oportunidades[k].Ticker
           /\ alertas[k].PrecoAtual = Oportunidades[k].PrecoAtual
           /\ alertas[k].PrecoTeto = Oportunidades[k].PrecoTeto

\* C24 witness: a finished batch with an opportunity, a result priced at
\* its ceiling and a result priced above it
C24_Witness_MixedMargins ==
    /\ pc = "done"
    /\ alertas # <<>>
    /\ \E k \in 1..Len(data_valuation) : data_valuation[k].MargemSeguranca = 0
    /\ \E k \in 1..Len(data_valuation) :
           /\ data_valuation[k].MargemSeguranca < 0
           /\ data_valuation[k].PrecoAtual > 0

\* the sector of a collected result names a financial institution
SetorFinanceiro(row) == "Setor" \in DOMAIN row /\ row["Setor"] = 1

\* C26: for any collection of results, also when every fundamentals snapshot
\* is the identifier-only degraded one, the aggregation completes and emits
\* the financial-institution caveat exactly when at least one result's
\* sector contains "Financial"; a missing sector never causes a failure and
\* never triggers the caveat.
C26_Counterexample_CaveatCompletes ==
    /\ pc # "failed"
    /\ (pc = "done" /\ data_valuation # <<>>) =>
           tem_setor_financeiro =
               <<\E k \in 1..Len(data_indicadores) :
                     SetorFinanceiro(data_indicadores[k])>>

\* C27: after each completed task is consumed, the four result collections
\* (valuation, indicators, indicator extras, statistics) have equal length
\* and position k of each refers to the same identifier, the k-th task
\* consumed in completion order.
C27_Counterexample_CollectionsAligned ==
    /\ Len(data_indicadores) = Len(data_valuation)
    /\ Len(data_indicadores_extras) = Len(data_valuation)
    /\ Len(data_estatisticas) = Len(data_valuation)
    /\ Len(data_valuation) <= Len(consumed)
    /\ \A k \in 1..Len(data_valuation) :
           /\ data_valuation[k].Ticker = tickers[consumed[k]]
           /\ data_indicadores[k]["Ticker"] = tickers[consumed[k]]
           /\ data_indicadores_extras[k].Ticker = tickers[consumed[k]]
           /\ data_estatisticas[k].Ticker = tickers[consumed[k]]

\* every Gateway call of the run returns or raises
TodasRetornam == \A i \in 1..Len(tickers) : ~Gateway(tickers[i]).hangs

\* the loop consumed every future, the pool is shut down and the run is at
\* or past the aggregation
Agregando ==
    /\ pc \in {"aggregating", "done", "failed"}
    /\ Len(consumed) = Len(tickers)
    /\ DOMAIN finished = 1..Len(tickers)
    /\ running = {} /\ queue = <<>>
    /\ threads = 0

\* C28: if every Gateway call eventually returns or raises, every submitted
\* task eventually completes, the collection loop consumes exactly n futures
\* for n accepted identifiers, the pool shuts down and the run reaches the
\* aggregation stage.
C28_BatchTerminates ==
    (pc = "submitting" /\ TodasRetornam) ~> Agregando

\* C28 witness: a run of three tasks, one of them raising out of
\* processar_ticker, has consumed its three futures and shut the pool down
C28_Witness_AllConsumed ==
    /\ Agregando
    /\ Len(tickers) = 3
    /\ erros # <<>>
    /\ data_valuation # <<>>

\* ---------------------------------------------------------------------------
\* Degraded values in the cache (SpecCache)
\* ---------------------------------------------------------------------------
\* the value a fetch operation returns when its Gateway call raises: price
\* 0, or the empty dividend table with mean and median 0
Degradado(chave) ==
    IF chave[1] = "obter_preco_atual" THEN 0
    ELSE [df |-> <<>>, media |-> 0, mediana |-> 0, erro |-> "Erro"]

\* C29: a degraded value produced by a failed Gateway call is stored in the
\* cache like a successful one: a run for the same key within the TTL
\* receives the degraded value and the Gateway is not called again for it
\* until the entry expires.
C29_DegradedValueCached ==
    k_last # <<>> =>
        LET c == k_last[1]
        IN  /\ (c.chamou /\ c.mundo = 0) =>
                  /\ c.valor = Degradado(c.chave)
                  /\ c.chave \in DOMAIN k_cache
                  /\ k_cache[c.chave].valor = Degradado(c.chave)
                  /\ k_cache[c.chave].criada = c.em
            /\ (/\ c.antes # <<>>
                 /\ c.antes[1].valor = Degradado(c.chave)
                 /\ c.em < c.antes[1].criada + 3600) =>
                  ~c.chamou /\ c.valor = Degradado(c.chave)

\* C29 witness: the provider is back with data, and a call made 3599 s after
\* the failed one still returns the stored price 0 without a Gateway call
C29_Witness_StaleDegraded ==
    /\ k_last # <<>>
    /\ k_last[1].chave[1] = "obter_preco_atual"
    /\ k_last[1].mundo = 2
    /\ k_last[1].antes # <<>>
    /\ k_last[1].em = k_last[1].antes[1].criada + 3599
    /\ ~k_last[1].chamou
    /\ k_last[1].valor = 0

\* ---- C30 ----
PositivoF64(x) == ~x.neg /\ x.bits # <<>>

====
